---- MODULE Spec2Model ----
(***************************************************************************)
(* A model of go-radius: the tools package (User-Password and              *)
(* Tunnel-Password obscuring), the protocol package (dictionary, attribute *)
(* and packet codec, host facade), the server's reply construction and the *)
(* client's reply verification.                                            *)
(*                                                                         *)
(* A byte slice is a sequence over 0..255.  A call that panics in Go       *)
(* (index or slice bounds out of range) ends in the status "fault".  A      *)
(* buffer handed to a parser has no capacity beyond its length.            *)
(***************************************************************************)
EXTENDS Integers, Sequences, FiniteSets, TLC

VARIABLES
  \* tools: the caller's buffers, the value and error returned last, the
  \* last call and the call before it
  data, encrypted, authenticator, salt, secret, result, err, op, prev,
  \* tools: the value handed to a conversion or to the check of an attribute
  \* value, and what was made of it
  conv,
  \* dictionary: the lines of the file not yet scanned, the state of the
  \* scan (with the lines already scanned), the dictionary built so far, the
  \* outcome of the last lookups
  lines, scan, dict, lookup,
  \* dictionary: the attribute created last through the dictionary
  created,
  \* packet: the packet under construction, the call made last on it and
  \* its error; the buffer on the wire, where it comes from and the offset
  \* of the byte changed in transit; what the receiver made of it
  pkt, pop, perr, wire, wfrom, tamperedAt, rx, verified,
  \* host: what the check of the attribute values made of the buffer in wire
  attrsVerified,
  \* server and client: the reply built for the request in wire, its bytes,
  \* and what the client made of them
  reply, replyWire, vreply

cryptoVars == <<data, encrypted, authenticator, salt, secret, result, err, op, prev, conv>>

dictVars == <<lines, scan, dict, lookup, created>>

packetVars == <<pkt, pop, perr, wire, wfrom, tamperedAt, rx, verified, attrsVerified>>

replyVars == <<reply, replyWire, vreply>>

vars == <<cryptoVars, dictVars, packetVars, replyVars>>

(***************************************************************************)
(* Bounds of the model.                                                    *)
(***************************************************************************)
\* plaintexts of every length 0..MaxPlainLen are drawn
MaxPlainLen == 34
\* dictionary files of up to MaxLines lines are drawn
MaxLines == 3
\* received buffers with up to MaxRawAttrs attributes are drawn
MaxRawAttrs == 2
\* attribute values of every length 0..MaxValueLen are checked against the
\* declared types
MaxValueLen == 9

(***************************************************************************)
(* Bytes and byte slices.                                                  *)
(***************************************************************************)
Byte == 0..255

Zeros(n) == [i \in 1..n |-> 0]

\* s[from:to] of Go, on a sequence indexed from 1 (from, to are Go's offsets)
Slice(s, from, to) == SubSeq(s, from + 1, to)

Min(a, b) == IF a < b THEN a ELSE b

\* uint8(n) of Go: the conversion keeps the low 8 bits
Uint8(n) == n % 256

RECURSIVE XorByte(_, _)
XorByte(a, b) ==
  IF a = 0 THEN b
  ELSE IF b = 0 THEN a
  ELSE ((a + b) % 2) + 2 * XorByte(a \div 2, b \div 2)

\* hash[i] ^= block[i] for the 16 bytes of hash
XorBlock(hash, block) == [i \in 1..16 |-> XorByte(hash[i], block[i])]

(***************************************************************************)
(* MD5 is an external primitive.  It is modelled as a fixed function from  *)
(* byte sequences to 16 bytes: two running sums over the input, in which   *)
(* every input byte and its position count, spread over the 16 output      *)
(* bytes.  Replacing one input byte always changes the digest (the         *)
(* multipliers are odd, so the low byte of each sum changes).              *)
(***************************************************************************)
\* the sums are kept to 24 bits
MD5Modulus == 16777216

\* one input byte enters the sum
MD5Step(m, msg, k, h) == (h * m + msg[k] + k) % MD5Modulus

\* the sum with multiplier m over msg[k..], eight bytes at a time; h is a
\* reduced sum at every step
RECURSIVE MD5Lane(_, _, _, _)
MD5Lane(m, msg, k, h) ==
  IF k > Len(msg) \/ h >= MD5Modulus THEN h
  ELSE IF k + 7 <= Len(msg)
    THEN MD5Lane(m, msg, k + 8,
           MD5Step(m, msg, k + 7, MD5Step(m, msg, k + 6, MD5Step(m, msg, k + 5,
           MD5Step(m, msg, k + 4, MD5Step(m, msg, k + 3, MD5Step(m, msg, k + 2,
           MD5Step(m, msg, k + 1, MD5Step(m, msg, k, h)))))))))
  ELSE MD5Lane(m, msg, k + 1, MD5Step(m, msg, k, h))

\* the 16 bytes of the digest, from the two sums
MD5Digest(u, v) ==
  << u % 256, (u \div 256) % 256, u \div 65536,
     v % 256, (v \div 256) % 256, v \div 65536,
     (u + v) % 256, (u + 3 * v) % 256, (3 * u + v) % 256,
     ((u \div 256) + v) % 256, (u + (v \div 256)) % 256,
     ((u \div 65536) + v) % 256, (u + (v \div 65536)) % 256,
     ((u \div 256) + (v \div 256)) % 256, ((u \div 4096) + v) % 256,
     (u + (v \div 4096)) % 256 >>

MD5(msg) == MD5Digest(MD5Lane(33, msg, 1, 11), MD5Lane(61, msg, 1, 7))

(***************************************************************************)
(* tools: User-Password and Tunnel-Password obscuring.                     *)
(***************************************************************************)
\* the loop of encryptHelper: output grows by one block per iteration, the
\* first block is keyed by the authenticator, the later ones by tmp
\* a variant that keys every block by the authenticator
RECURSIVE encryptLoopNoChain(_, _, _, _)
encryptLoopNoChain(output, dta, key, sec) ==
  LET hash  == MD5(sec \o key)
      block == XorBlock(hash, dta)
      out   == output \o block
      rest  == IF Len(dta) = 16 THEN <<>> ELSE Slice(dta, 16, Len(dta))
  IN  IF Len(rest) = 0 THEN out ELSE encryptLoopNoChain(out, rest, key, sec)

RECURSIVE encryptLoop(_, _, _, _)
encryptLoop(output, dta, key, sec) ==
  LET hash  == MD5(sec \o key)
      block == XorBlock(hash, dta)
      out   == output \o block
      rest  == IF Len(dta) = 16 THEN <<>> ELSE Slice(dta, 16, Len(dta))
  IN  IF Len(rest) = 0 THEN out ELSE encryptLoop(out, rest, block, sec)

encryptHelper(output, dta, auth, sec) == encryptLoop(output, dta, auth, sec)

\* a variant that adds no padding block to a plaintext of whole blocks
EncryptDataNoExtraBlock(dta, auth, sec) ==
  LET padding     == IF Len(dta) > 0 /\ Len(dta) % 16 = 0 THEN 0 ELSE 16 - (Len(dta) % 16)
      initialData == dta \o Zeros(padding)
  IN  encryptHelper(<<>>, initialData, auth, sec)

EncryptData(dta, auth, sec) ==
  LET padding     == 16 - (Len(dta) % 16)
      initialData == dta \o Zeros(padding)
  IN  encryptHelper(<<>>, initialData, auth, sec)

\* the second loop of DecryptData: pop the trailing zero bytes; reading
\* result[len(result) - 1] of an empty result is out of range
\* a variant that pops at most one zero byte
stripZerosOnce(res) ==
  IF Len(res) = 0 THEN [out |-> <<>>, status |-> "fault"]
  ELSE IF res[Len(res)] = 0 THEN [out |-> SubSeq(res, 1, Len(res) - 1), status |-> "ok"]
  ELSE [out |-> res, status |-> "ok"]

RECURSIVE stripZeros(_)
stripZeros(res) ==
  IF Len(res) = 0 THEN [out |-> <<>>, status |-> "fault"]
  ELSE IF res[Len(res)] = 0 THEN stripZeros(SubSeq(res, 1, Len(res) - 1))
  ELSE [out |-> res, status |-> "ok"]

\* the first loop of DecryptData and the loop of SaltDecryptData; *data
\* shrinks by 16 bytes per iteration, and reading (*data)[i] or
\* (*data)[:16] past its end is out of range
RECURSIVE decryptLoop(_, _, _, _)
decryptLoop(res, dta, prevResult, sec) ==
  IF Len(dta) < 16 THEN [out |-> res, data |-> dta, status |-> "fault"]
  ELSE LET hash == XorBlock(MD5(sec \o prevResult), dta)
           out  == res \o hash
           rest == Slice(dta, 16, Len(dta))
       IN  IF Len(rest) = 0 THEN [out |-> out, data |-> rest, status |-> "ok"]
           ELSE decryptLoop(out, rest, Slice(dta, 0, 16), sec)

\* out: the returned slice, data: what the caller's *data is afterwards
DecryptData(dta, auth, sec) ==
  LET n          == Min(16, Len(auth))
      prevResult == [i \in 1..16 |-> IF i <= n THEN auth[i] ELSE 0]
      loop       == decryptLoop(<<>>, dta, prevResult, sec)
  IN  IF loop.status = "fault" THEN [out |-> <<>>, data |-> loop.data, status |-> "fault"]
      ELSE LET s == stripZeros(loop.out)
           IN  [out |-> s.out, data |-> loop.data, status |-> s.status]

\* a variant that does not put the salt in front of the blocks
SaltEncryptDataNoSalt(dta, auth, slt, sec) ==
  IF Len(dta) = 0 THEN <<>>
  ELSE LET padding             == 15 - (Len(dta) % 16)
           initialData         == <<Uint8(Len(dta))>> \o dta \o Zeros(padding)
           saltedAuthenticator == Slice(auth, 0, 16) \o Slice(slt, 0, 2)
       IN  encryptHelper(<<>>, initialData, saltedAuthenticator, sec)

SaltEncryptData(dta, auth, slt, sec) ==
  IF Len(dta) = 0 THEN <<>>
  ELSE LET padding             == 15 - (Len(dta) % 16)
           initialData         == <<Uint8(Len(dta))>> \o dta \o Zeros(padding)
           saltedAuthenticator == Slice(auth, 0, 16) \o Slice(slt, 0, 2)
       IN  encryptHelper(slt, initialData, saltedAuthenticator, sec)

TooShort == "salt encrypted attribute too short"

SaltDecryptData(dta, auth, sec) ==
  LET initialLen == Uint8(Len(dta))
  IN  IF initialLen <= 1
        THEN [out |-> <<>>, data |-> dta, status |-> TooShort]
      ELSE IF initialLen <= 17
        THEN [out |-> <<>>, data |-> dta, status |-> "ok"]
      ELSE LET prevResult == Slice(auth, 0, 16) \o Slice(dta, 0, 2)
               loop       == decryptLoop(<<>>, Slice(dta, 2, Len(dta)), prevResult, sec)
           IN  IF loop.status = "fault"
                 THEN [out |-> <<>>, data |-> loop.data, status |-> "fault"]
               ELSE LET targetLen == loop.out[1]
                        res       == Slice(loop.out, 1, Len(loop.out))
                    IN  IF targetLen > initialLen - 3
                          THEN [out |-> <<>>, data |-> loop.data,
                                status |-> "Tunnel Password is too long (shared secret might be wrong)"]
                        ELSE [out |-> Slice(res, 0, targetLen), data |-> loop.data, status |-> "ok"]

(***************************************************************************)
(* protocol: the dictionary.  A line of the file is the sequence of its     *)
(* whitespace-separated fields; the empty line is <<>> and a comment line   *)
(* starts with the field "#".  A numeric field is the sequence of its       *)
(* characters: 0..9 for the digits, NonDigit for any other character.       *)
(***************************************************************************)
COMMENT_PREFIX == "#"

\* a character of a numeric field that is no decimal digit; the digits of a
\* field are 0..9
NonDigit == 10

\* strconv.ParseUint(field, 10, 8): fails on the empty field, on a character
\* that is no digit and on a value above 255
RECURSIVE DecimalValue(_, _, _)
DecimalValue(field, k, acc) ==
  IF k > Len(field) THEN acc
  ELSE IF acc > 255 THEN acc
  ELSE DecimalValue(field, k + 1, 10 * acc + field[k])

ParseUint8(field) ==
  IF Len(field) = 0 \/ \E k \in 1..Len(field) : field[k] = NonDigit
    THEN [value |-> 0, ok |-> FALSE]
  ELSE LET v == DecimalValue(field, 1, 0)
       IN  IF v > 255 THEN [value |-> 255, ok |-> FALSE] ELSE [value |-> v, ok |-> TRUE]

assignAttributeType(codeType) ==
  CASE codeType = "text"       -> [type |-> "AsciiString", ok |-> TRUE]
    [] codeType = "string"     -> [type |-> "ByteString", ok |-> TRUE]
    [] codeType = "integer"    -> [type |-> "Integer", ok |-> TRUE]
    [] codeType = "integer64"  -> [type |-> "Integer64", ok |-> TRUE]
    [] codeType = "time"       -> [type |-> "Date", ok |-> TRUE]
    [] codeType \in {"ipv4addr", "ipaddr"} -> [type |-> "IPv4Addr", ok |-> TRUE]
    [] codeType = "ipv4prefix" -> [type |-> "IPv4Prefix", ok |-> TRUE]
    [] codeType = "ipv6addr"   -> [type |-> "IPv6Addr", ok |-> TRUE]
    [] codeType = "ipv6prefix" -> [type |-> "IPv6Prefix", ok |-> TRUE]
    [] codeType = "ifid"       -> [type |-> "InterfaceId", ok |-> TRUE]
    [] OTHER                   -> [type |-> "AsciiString", ok |-> FALSE]

DictionaryAttribute(name, vendorName, code, codeType) ==
  [name |-> name, vendorName |-> vendorName, code |-> code, codeType |-> codeType]

\* DictionaryAttribute{}
ZeroDictionaryAttribute == DictionaryAttribute("", "", 0, "AsciiString")

\* Dictionary{}
EmptyDictionary == [attributes |-> <<>>, values |-> <<>>, vendors |-> <<>>]

\* parseAttribute: panics on a missing field and on a code that ParseUint
\* rejects; appends nothing when the type is not supported
parseAttribute(parsedLine, vendorName, d) ==
  IF Len(parsedLine) < 3 \/ ~ParseUint8(parsedLine[3]).ok \/ Len(parsedLine) < 4
    THEN [dict |-> d, status |-> "panic"]
  ELSE LET attrType == assignAttributeType(parsedLine[4])
       IN  IF attrType.ok
             THEN [dict |-> [d EXCEPT !.attributes = Append(@,
                      DictionaryAttribute(parsedLine[2], vendorName,
                                          ParseUint8(parsedLine[3]).value, attrType.type))],
                   status |-> "loading"]
           ELSE [dict |-> d, status |-> "loading"]

parseValue(parsedLine, vendorName, d) ==
  IF Len(parsedLine) < 4 THEN [dict |-> d, status |-> "panic"]
  ELSE [dict |-> [d EXCEPT !.values = Append(@,
            [attributeName |-> parsedLine[2], valueName |-> parsedLine[3],
             vendorName |-> vendorName, value |-> parsedLine[4]])],
        status |-> "loading"]

parseVendor(parsedLine, d) ==
  IF Len(parsedLine) < 3 \/ ~ParseUint8(parsedLine[3]).ok
    THEN [dict |-> d, status |-> "panic"]
  ELSE [dict |-> [d EXCEPT !.vendors = Append(@,
            [name |-> parsedLine[2], id |-> ParseUint8(parsedLine[3]).value])],
        status |-> "loading"]

\* a variant in which END-VENDOR leaves the active vendor in place
scanLineEndKeepsVendor(line, vendorName, d) ==
  IF Len(line) = 0 \/ line[1] = COMMENT_PREFIX
    THEN [dict |-> d, vendorName |-> vendorName, status |-> "loading"]
  ELSE CASE line[1] = "ATTRIBUTE" ->
              LET r == parseAttribute(line, vendorName, d)
              IN  [dict |-> r.dict, vendorName |-> vendorName, status |-> r.status]
         [] line[1] = "VALUE" ->
              LET r == parseValue(line, vendorName, d)
              IN  [dict |-> r.dict, vendorName |-> vendorName, status |-> r.status]
         [] line[1] = "VENDOR" ->
              LET r == parseVendor(line, d)
              IN  [dict |-> r.dict, vendorName |-> vendorName, status |-> r.status]
         [] line[1] = "BEGIN-VENDOR" ->
              IF Len(line) < 2 THEN [dict |-> d, vendorName |-> vendorName, status |-> "panic"]
              ELSE [dict |-> d, vendorName |-> line[2], status |-> "loading"]
         [] line[1] = "END-VENDOR" ->
              [dict |-> d, vendorName |-> vendorName, status |-> "loading"]
         [] OTHER -> [dict |-> d, vendorName |-> vendorName, status |-> "loading"]

\* one iteration of the scanner loop of DictionaryFromFile
scanLine(line, vendorName, d) ==
  IF Len(line) = 0 \/ line[1] = COMMENT_PREFIX
    THEN [dict |-> d, vendorName |-> vendorName, status |-> "loading"]
  ELSE CASE line[1] = "ATTRIBUTE" ->
              LET r == parseAttribute(line, vendorName, d)
              IN  [dict |-> r.dict, vendorName |-> vendorName, status |-> r.status]
         [] line[1] = "VALUE" ->
              LET r == parseValue(line, vendorName, d)
              IN  [dict |-> r.dict, vendorName |-> vendorName, status |-> r.status]
         [] line[1] = "VENDOR" ->
              LET r == parseVendor(line, d)
              IN  [dict |-> r.dict, vendorName |-> vendorName, status |-> r.status]
         [] line[1] = "BEGIN-VENDOR" ->
              IF Len(line) < 2 THEN [dict |-> d, vendorName |-> vendorName, status |-> "panic"]
              ELSE [dict |-> d, vendorName |-> line[2], status |-> "loading"]
         [] line[1] = "END-VENDOR" ->
              [dict |-> d, vendorName |-> "", status |-> "loading"]
         [] OTHER -> [dict |-> d, vendorName |-> vendorName, status |-> "loading"]

\* DictionaryFromFile on the lines of a file that opens and reads without an
\* I/O error
RECURSIVE scanFile(_, _, _)
scanFile(file, vendorName, d) ==
  IF Len(file) = 0 THEN [dict |-> d, status |-> "loaded"]
  ELSE LET r == scanLine(Head(file), vendorName, d)
       IN  IF r.status = "panic" THEN [dict |-> r.dict, status |-> "panic"]
           ELSE scanFile(Tail(file), r.vendorName, r.dict)

DictionaryFromFile(file) == scanFile(file, "", EmptyDictionary)

\* the index of the first TRUE of matches, 0 when there is none: where a
\* `for _, attr := range ...' loop that returns on a match stops; matches[i]
\* tells whether the i-th element satisfies the loop's condition
FirstIndex(matches) ==
  IF \E i \in 1..Len(matches) : matches[i]
    THEN CHOOSE i \in 1..Len(matches) : matches[i] /\ \A j \in 1..(i - 1) : ~matches[j]
  ELSE 0

\* a variant of the lookup by id that keeps the last match
DictionaryAttributeByIDLast(d, packetAttrID) ==
  LET matches == {k \in 1..Len(d.attributes) : d.attributes[k].code = packetAttrID}
      i == IF matches = {} THEN 0 ELSE CHOOSE k \in matches : \A l \in matches : l <= k
  IN  IF i = 0 THEN [attr |-> ZeroDictionaryAttribute, ok |-> FALSE]
      ELSE [attr |-> d.attributes[i], ok |-> TRUE]

\* Host.DictionaryAttributeByID
DictionaryAttributeByID(d, packetAttrID) ==
  LET i == FirstIndex([k \in 1..Len(d.attributes) |-> d.attributes[k].code = packetAttrID])
  IN  IF i = 0 THEN [attr |-> ZeroDictionaryAttribute, ok |-> FALSE]
      ELSE [attr |-> d.attributes[i], ok |-> TRUE]

\* Host.DictionaryAttributeByName
DictionaryAttributeByName(d, packetAttrName) ==
  LET i == FirstIndex([k \in 1..Len(d.attributes) |-> d.attributes[k].name = packetAttrName])
  IN  IF i = 0 THEN [attr |-> ZeroDictionaryAttribute, ok |-> FALSE]
      ELSE [attr |-> d.attributes[i], ok |-> TRUE]

(***************************************************************************)
(* tools: the encoders and decoders of attribute values.  A uint32 is the   *)
(* pair of its 16-bit halves, high half first; an int64 is the sequence of  *)
(* the four 16-bit quarters of its two's complement form, highest first; a  *)
(* string is the sequence of its parts.                                     *)
(***************************************************************************)
\* timestamp > 0xFFFFFFFF on an int64: it is not negative and has a bit set
\* above the low 32
GreaterThanMaxUint32(timestamp) ==
  timestamp[1] < 32768 /\ (timestamp[1] # 0 \/ timestamp[2] # 0)

\* uint32(timestamp): the conversion keeps the low 32 bits
Uint32OfInt64(timestamp) == <<timestamp[3], timestamp[4]>>

\* binary.BigEndian.PutUint32
BigEndianPutUint32(v) == <<v[1] \div 256, v[1] % 256, v[2] \div 256, v[2] % 256>>

WontFit == "Provided integer won't fit into uint32"

TimestampToBytes(timestamp) ==
  IF GreaterThanMaxUint32(timestamp) THEN [bytes |-> <<>>, err |-> WontFit]
  ELSE [bytes |-> BigEndianPutUint32(Uint32OfInt64(timestamp)), err |-> "ok"]

\* binary.BigEndian.Uint16 and binary.BigEndian.Uint32
BigEndianUint16(b) == 256 * b[1] + b[2]

BigEndianUint32(b) == <<256 * b[1] + b[2], 256 * b[3] + b[4]>>

BytesToInteger(integer) ==
  IF Len(integer) # 4 THEN [value |-> <<0, 0>>, ok |-> FALSE]
  ELSE [value |-> BigEndianUint32(integer), ok |-> TRUE]

BytesToTimestamp(timestamp) ==
  IF Len(timestamp) # 4 THEN [value |-> <<0, 0>>, ok |-> FALSE]
  ELSE [value |-> BigEndianUint32(timestamp), ok |-> TRUE]

\* the text is the sequence of the four numbers of the address, followed by
\* "/" and the subnet when there is one; <<>> is the empty string
BytesToIPv4String(ipv4) ==
  CASE Len(ipv4) = 6 ->
         [text |-> <<ipv4[3], ipv4[4], ipv4[5], ipv4[6], "/", BigEndianUint16(Slice(ipv4, 0, 2))>>,
          err |-> "ok"]
    [] Len(ipv4) = 4 -> [text |-> <<ipv4[1], ipv4[2], ipv4[3], ipv4[4]>>, err |-> "ok"]
    [] OTHER -> [text |-> <<>>, err |-> "Malformed IPv4"]

\* the text is the sequence of the sixteen bytes of the address, followed by
\* "/" and the prefix length when there is one
BytesToIPv6String(ipv6) ==
  CASE Len(ipv6) = 18 -> [text |-> Slice(ipv6, 2, 18) \o <<"/", ipv6[2]>>, ok |-> TRUE]
    [] Len(ipv6) = 16 -> [text |-> ipv6, ok |-> TRUE]
    [] OTHER -> [text |-> <<>>, ok |-> FALSE]

\* utf8.Valid on p[k..]: the well-formed byte sequences of UTF-8
RECURSIVE utf8Valid(_, _)
utf8Valid(p, k) ==
  IF k > Len(p) THEN TRUE
  ELSE LET In(i, lo, hi) == i <= Len(p) /\ p[i] >= lo /\ p[i] <= hi
           Cont(i)       == In(i, 128, 191)
           b             == p[k]
       IN  CASE b < 128 -> utf8Valid(p, k + 1)
             [] b >= 194 /\ b <= 223 -> Cont(k + 1) /\ utf8Valid(p, k + 2)
             [] b = 224 -> In(k + 1, 160, 191) /\ Cont(k + 2) /\ utf8Valid(p, k + 3)
             [] (b >= 225 /\ b <= 236) \/ b = 238 \/ b = 239 ->
                  Cont(k + 1) /\ Cont(k + 2) /\ utf8Valid(p, k + 3)
             [] b = 237 -> In(k + 1, 128, 159) /\ Cont(k + 2) /\ utf8Valid(p, k + 3)
             [] b = 240 ->
                  In(k + 1, 144, 191) /\ Cont(k + 2) /\ Cont(k + 3) /\ utf8Valid(p, k + 4)
             [] b >= 241 /\ b <= 243 ->
                  Cont(k + 1) /\ Cont(k + 2) /\ Cont(k + 3) /\ utf8Valid(p, k + 4)
             [] b = 244 ->
                  In(k + 1, 128, 143) /\ Cont(k + 2) /\ Cont(k + 3) /\ utf8Valid(p, k + 4)
             [] OTHER -> FALSE

(***************************************************************************)
(* protocol: type codes, attributes and packets.                           *)
(***************************************************************************)
\* the cases of typeCodeFromUint8 and typeCodeToUint8
TypeCodeTable ==
  << <<1, "AccessRequest">>, <<2, "AccessAccept">>, <<3, "AccessReject">>,
     <<4, "AccountingRequest">>, <<5, "AccountingResponse">>,
     <<11, "AccessChallenge">>, <<12, "StatusServer">>, <<13, "StatusClient">>,
     <<40, "DisconnectRequest">>, <<41, "DisconnectACK">>, <<42, "DisconnectNAK">>,
     <<43, "CoARequest">>, <<44, "CoAACK">>, <<45, "CoANAK">> >>

\* a TypeCode that is none of the named constants, such as TypeCode(99)
UnknownTypeCode == "TypeCode(99)"

\* a variant that takes the code 0 for the first named constant
typeCodeFromUint8ZeroNamed(code) ==
  IF code = 0 THEN [code |-> "AccessRequest", ok |-> TRUE]
  ELSE IF \E i \in 1..Len(TypeCodeTable) : TypeCodeTable[i][1] = code
    THEN [code |-> TypeCodeTable[CHOOSE i \in 1..Len(TypeCodeTable) : TypeCodeTable[i][1] = code][2],
          ok |-> TRUE]
  ELSE [code |-> "AccessRequest", ok |-> FALSE]

typeCodeFromUint8(code) ==
  IF \E i \in 1..Len(TypeCodeTable) : TypeCodeTable[i][1] = code
    THEN [code |-> TypeCodeTable[CHOOSE i \in 1..Len(TypeCodeTable) : TypeCodeTable[i][1] = code][2],
          ok |-> TRUE]
  ELSE [code |-> "AccessRequest", ok |-> FALSE]

typeCodeToUint8(code) ==
  IF \E i \in 1..Len(TypeCodeTable) : TypeCodeTable[i][2] = code
    THEN [value |-> TypeCodeTable[CHOOSE i \in 1..Len(TypeCodeTable) : TypeCodeTable[i][2] = code][1],
          ok |-> TRUE]
  ELSE [value |-> 0, ok |-> FALSE]

RadiusAttribute(id, name, value) == [id |-> id, name |-> name, value |-> value]

\* RadiusAttribute{}
ZeroRadiusAttribute == RadiusAttribute(0, "", <<>>)

CreateRadAttributeByName(d, attributeName, value) ==
  LET i == FirstIndex([k \in 1..Len(d.attributes) |-> d.attributes[k].name = attributeName])
  IN  IF i = 0 THEN [attr |-> ZeroRadiusAttribute, ok |-> FALSE]
      ELSE [attr |-> RadiusAttribute(d.attributes[i].code, attributeName, value), ok |-> TRUE]

\* a variant that takes the name of the last entry with the code
CreateRadAttributeByIDLast(d, attributeID, value) ==
  LET matches == {k \in 1..Len(d.attributes) : d.attributes[k].code = attributeID}
      i == IF matches = {} THEN 0 ELSE CHOOSE k \in matches : \A l \in matches : l <= k
  IN  IF i = 0 THEN [attr |-> ZeroRadiusAttribute, ok |-> FALSE]
      ELSE [attr |-> RadiusAttribute(attributeID, d.attributes[i].name, value), ok |-> TRUE]

CreateRadAttributeByID(d, attributeID, value) ==
  LET i == FirstIndex([k \in 1..Len(d.attributes) |-> d.attributes[k].code = attributeID])
  IN  IF i = 0 THEN [attr |-> ZeroRadiusAttribute, ok |-> FALSE]
      ELSE [attr |-> RadiusAttribute(attributeID, d.attributes[i].name, value), ok |-> TRUE]

\* RadiusAttribute.VerifyOriginalValue
VerifyOriginalValue(radAttr, allowedType) ==
  CASE allowedType = "AsciiString" -> utf8Valid(radAttr.value, 1)
    [] allowedType = "ByteString"  -> radAttr.value # <<>>
    [] allowedType = "Integer"     -> BytesToInteger(radAttr.value).ok
    [] allowedType = "Date"        -> BytesToTimestamp(radAttr.value).ok
    [] allowedType = "IPv4Addr"    -> BytesToIPv4String(radAttr.value).text # <<>>
    [] allowedType = "IPv6Addr"    -> BytesToIPv6String(radAttr.value).ok
    [] allowedType = "IPv6Prefix"  -> BytesToIPv6String(radAttr.value).ok
    [] OTHER                       -> FALSE

\* a variant whose length byte counts the value only
attrToBytesValueLen(radAttr) == <<radAttr.id, Uint8(Len(radAttr.value))>> \o radAttr.value

\* RadiusAttribute.toBytes
attrToBytes(radAttr) == <<radAttr.id, Uint8(2 + Len(radAttr.value))>> \o radAttr.value

RadiusPacket(id, code, auth, attributes) ==
  [id |-> id, code |-> code, authenticator |-> auth, attributes |-> attributes]

\* RadiusPacket{}
ZeroRadiusPacket == RadiusPacket(0, "AccessRequest", <<>>, <<>>)

\* binary.BigEndian.PutUint16 of uint16(length)
packetLengthToBytes(length) == <<(length % 65536) \div 256, length % 256>>

RECURSIVE attrsToBytes(_)
attrsToBytes(attributes) ==
  IF Len(attributes) = 0 THEN <<>>
  ELSE attrToBytes(Head(attributes)) \o attrsToBytes(Tail(attributes))

\* RadiusPacket.ToBytes; rnd is what createPacketAuthenticator returns when
\* it is called; packet is the receiver after the call
ToBytes(radPacket, rnd) ==
  LET p          == IF Len(radPacket.authenticator) = 0
                      THEN [radPacket EXCEPT !.authenticator = rnd]
                    ELSE radPacket
      packetAttr == attrsToBytes(p.attributes)
      code       == typeCodeToUint8(p.code)
  IN  IF ~code.ok THEN [bytes |-> <<>>, ok |-> FALSE, packet |-> p]
      ELSE [bytes |-> <<code.value, p.id>> \o packetLengthToBytes(20 + Len(packetAttr))
                        \o p.authenticator \o packetAttr,
            ok |-> TRUE, packet |-> p]

\* the id an error message carries when it names no attribute
NoID == -1

\* the attribute loop of InitialiseRadiusPacketFromBytes, from lastIndex on;
\* id is the attribute id that the error message names
RECURSIVE parseAttributes(_, _, _, _)
parseAttributes(d, bytes, lastIndex, attributes) ==
  IF lastIndex = Len(bytes) THEN [attributes |-> attributes, status |-> "ok", id |-> NoID]
  ELSE IF lastIndex + 1 >= Len(bytes)
    THEN [attributes |-> attributes, status |-> "fault", id |-> NoID]
  ELSE LET attrID     == bytes[lastIndex + 1]
           attrLength == bytes[lastIndex + 2]
       IN  IF attrLength < 2 \/ lastIndex + attrLength > Len(bytes)
             THEN [attributes |-> attributes, status |-> "fault", id |-> NoID]
           ELSE LET attrValue == Slice(bytes, lastIndex + 2, lastIndex + attrLength)
                    tmpAttr   == CreateRadAttributeByID(d, attrID, attrValue)
                IN  IF ~tmpAttr.ok
                      THEN [attributes |-> attributes,
                            status |-> "attribute is not found in dictionary", id |-> attrID]
                    ELSE parseAttributes(d, bytes, lastIndex + attrLength,
                                         Append(attributes, tmpAttr.attr))

InitialiseRadiusPacketFromBytes(d, bytes) ==
  IF Len(bytes) = 0 THEN [packet |-> ZeroRadiusPacket, status |-> "fault", id |-> NoID]
  ELSE LET code == typeCodeFromUint8(bytes[1])
       IN  IF ~code.ok
             THEN [packet |-> ZeroRadiusPacket, status |-> "Invalid TypeCode", id |-> NoID]
           ELSE IF Len(bytes) < 20
             THEN [packet |-> ZeroRadiusPacket, status |-> "fault", id |-> NoID]
           ELSE LET r == parseAttributes(d, bytes, 20, <<>>)
                IN  IF r.status # "ok"
                      THEN [packet |-> ZeroRadiusPacket, status |-> r.status, id |-> r.id]
                    ELSE [packet |-> RadiusPacket(bytes[2], code.code, Slice(bytes, 4, 20), r.attributes),
                          status |-> "ok", id |-> NoID]

MessageAuthenticatorName == "Message-Authenticator"

NotFoundInPacket == "Message-Authenticator attribute not found in packet"

\* the index of the first attribute of the packet named Message-Authenticator
MessageAuthenticatorIndex(radPacket) ==
  FirstIndex([k \in 1..Len(radPacket.attributes) |->
                radPacket.attributes[k].name = MessageAuthenticatorName])

\* a variant that writes the last attribute named Message-Authenticator
OverrideMessageAuthenticatorLast(radPacket, newMessageAuth) ==
  LET matches == {k \in 1..Len(radPacket.attributes) :
                    radPacket.attributes[k].name = MessageAuthenticatorName}
      idx == IF matches = {} THEN 0 ELSE CHOOSE k \in matches : \A l \in matches : l <= k
  IN  IF idx = 0 THEN [packet |-> radPacket, status |-> NotFoundInPacket]
      ELSE [packet |-> [radPacket EXCEPT !.attributes[idx].value = newMessageAuth],
            status |-> "ok"]

\* a variant that writes every attribute named Message-Authenticator
OverrideMessageAuthenticatorAll(radPacket, newMessageAuth) ==
  IF MessageAuthenticatorIndex(radPacket) = 0
    THEN [packet |-> radPacket, status |-> NotFoundInPacket]
  ELSE [packet |-> [radPacket EXCEPT !.attributes =
                      [k \in 1..Len(radPacket.attributes) |->
                         IF radPacket.attributes[k].name = MessageAuthenticatorName
                           THEN [radPacket.attributes[k] EXCEPT !.value = newMessageAuth]
                         ELSE radPacket.attributes[k]]],
        status |-> "ok"]

OverrideMessageAuthenticator(radPacket, newMessageAuth) ==
  LET idx == MessageAuthenticatorIndex(radPacket)
  IN  IF idx = 0 THEN [packet |-> radPacket, status |-> NotFoundInPacket]
      ELSE [packet |-> [radPacket EXCEPT !.attributes[idx].value = newMessageAuth],
            status |-> "ok"]

\* RadiusPacket.MessageAuthenticator
MessageAuthenticator(radPacket) ==
  LET idx == MessageAuthenticatorIndex(radPacket)
  IN  IF idx = 0 THEN [value |-> <<>>, status |-> NotFoundInPacket]
      ELSE [value |-> radPacket.attributes[idx].value, status |-> "ok"]

\* hmac.New(md5.New, key), Write(msg), Sum(nil): HMAC over MD5 with its
\* 64-byte block
HMACKey(key) ==
  LET k == IF Len(key) > 64 THEN MD5(key) ELSE key
  IN  [i \in 1..64 |-> IF i <= Len(k) THEN k[i] ELSE 0]

HMACMD5(key, msg) ==
  LET k     == HMACKey(key)
      ipad  == [i \in 1..64 |-> XorByte(k[i], 54)]
      opad  == [i \in 1..64 |-> XorByte(k[i], 92)]
  IN  MD5(opad \o MD5(ipad \o msg))

\* a variant that serialises the packet before it looks for the attribute
GenerateMessageAuthenticatorSerialiseFirst(radPacket, sec, rnd) ==
  LET tb     == ToBytes(radPacket, rnd)
      zeroed == OverrideMessageAuthenticator(tb.packet, Zeros(16))
  IN  IF zeroed.status # "ok" THEN zeroed
      ELSE LET zb == ToBytes(zeroed.packet, rnd)
           IN  IF ~zb.ok
                 THEN [packet |-> zb.packet, status |-> "failed to convert RadiusPacket to bytes"]
               ELSE OverrideMessageAuthenticator(zb.packet, HMACMD5(sec, zb.bytes))

\* RadiusPacket.GenerateMessageAuthenticator; packet is the receiver after
\* the call
GenerateMessageAuthenticator(radPacket, sec, rnd) ==
  LET zeroed == OverrideMessageAuthenticator(radPacket, Zeros(16))
  IN  IF zeroed.status # "ok" THEN zeroed
      ELSE LET tb == ToBytes(zeroed.packet, rnd)
           IN  IF ~tb.ok
                 THEN [packet |-> tb.packet, status |-> "failed to convert RadiusPacket to bytes"]
               ELSE OverrideMessageAuthenticator(tb.packet, HMACMD5(sec, tb.bytes))

MismatchError == "Packet Message-Authenticator mismatch"

\* Host.VerifyMessageAuthenticator: "ok" stands for the nil error
VerifyMessageAuthenticator(d, sec, packet) ==
  LET parsed == InitialiseRadiusPacketFromBytes(d, packet)
  IN  IF parsed.status # "ok" THEN parsed.status
      ELSE LET originalMsgAuth == MessageAuthenticator(parsed.packet)
           IN  IF originalMsgAuth.status # "ok" THEN originalMsgAuth.status
               ELSE LET zeroed == OverrideMessageAuthenticator(parsed.packet, Zeros(16))
                        tb     == ToBytes(zeroed.packet, Zeros(16))
                    IN  IF ~tb.ok THEN "Failed to convert RadiusPacket to bytes"
                        ELSE IF originalMsgAuth.value = HMACMD5(sec, tb.bytes) THEN "ok"
                        ELSE MismatchError

IGNORE_VERIFY_ATTRIBUTE == "Message-Authenticator"

MayNotExist ==
  "Attribute with ID %d may not exist in provided dictionary file, thus verification failed"

CannotVerify == "Cannot verify original value of attribute with ID %d"

\* a variant of the loop that checks Message-Authenticator as well
RECURSIVE verifyAttributesNoSkip(_, _, _)
verifyAttributesNoSkip(d, attributes, k) ==
  IF k > Len(attributes) THEN [status |-> "ok", id |-> NoID]
  ELSE LET packetAttr    == attributes[k]
           dictAttribute == DictionaryAttributeByID(d, packetAttr.id)
       IN  IF ~dictAttribute.ok THEN [status |-> MayNotExist, id |-> packetAttr.id]
           ELSE IF ~VerifyOriginalValue(packetAttr, dictAttribute.attr.codeType)
             THEN [status |-> CannotVerify, id |-> packetAttr.id]
           ELSE verifyAttributesNoSkip(d, attributes, k + 1)

\* the loop of Host.VerifyPacketAttributes over attributes[k..]
RECURSIVE verifyAttributes(_, _, _)
verifyAttributes(d, attributes, k) ==
  IF k > Len(attributes) THEN [status |-> "ok", id |-> NoID]
  ELSE LET packetAttr == attributes[k]
       IN  IF packetAttr.name = IGNORE_VERIFY_ATTRIBUTE THEN verifyAttributes(d, attributes, k + 1)
           ELSE LET dictAttribute == DictionaryAttributeByID(d, packetAttr.id)
                IN  IF ~dictAttribute.ok THEN [status |-> MayNotExist, id |-> packetAttr.id]
                    ELSE IF ~VerifyOriginalValue(packetAttr, dictAttribute.attr.codeType)
                      THEN [status |-> CannotVerify, id |-> packetAttr.id]
                    ELSE verifyAttributes(d, attributes, k + 1)

\* Host.VerifyPacketAttributes: "ok" stands for the nil error, id is the
\* number the error message carries
VerifyPacketAttributes(d, packet) ==
  LET parsed == InitialiseRadiusPacketFromBytes(d, packet)
  IN  IF parsed.status # "ok" THEN [status |-> parsed.status, id |-> parsed.id]
      ELSE verifyAttributes(d, parsed.packet.attributes, 1)

(***************************************************************************)
(* server and client: the reply to a request and its verification.         *)
(***************************************************************************)
\* a variant that leaves the secret out of the digest
createReplyAuthenticatorNoSecret(sec, replyBytes, requestAuth) ==
  MD5(Slice(replyBytes, 0, 4) \o requestAuth \o Slice(replyBytes, 20, Len(replyBytes)))

createReplyAuthenticator(sec, replyBytes, requestAuth) ==
  MD5(Slice(replyBytes, 0, 4) \o requestAuth \o Slice(replyBytes, 20, Len(replyBytes)) \o sec)

\* Server.CreateReplyPacket; rnd is the authenticator InitialiseRadPacket
\* draws (the id it draws is overridden at once)
CreateReplyPacket(replyCode, attributes, request, sec, rnd) ==
  IF Len(request) < 2 THEN [packet |-> ZeroRadiusPacket, status |-> "fault"]
  ELSE LET replyPacket == RadiusPacket(request[2], replyCode, rnd, attributes)
           replyBytes  == ToBytes(replyPacket, rnd).bytes
       IN  IF Len(request) < 20 \/ Len(replyBytes) < 20
             THEN [packet |-> ZeroRadiusPacket, status |-> "fault"]
           ELSE [packet |-> [replyPacket EXCEPT !.authenticator =
                               createReplyAuthenticator(sec, replyBytes, Slice(request, 4, 20))],
                 status |-> "ok"]

\* Client.VerifyReply
VerifyReply(clientSecret, request, replyBytes) ==
  IF Len(replyBytes) = 0 THEN [ok |-> FALSE, err |-> "Empty reply"]
  ELSE IF Len(replyBytes) < 2 THEN [ok |-> FALSE, err |-> "fault"]
  ELSE IF request.id # replyBytes[2] THEN [ok |-> FALSE, err |-> "Packet identifier mismatch"]
  ELSE IF Len(replyBytes) < 20 THEN [ok |-> FALSE, err |-> "fault"]
  ELSE IF Slice(replyBytes, 4, 20) =
            MD5(Slice(replyBytes, 0, 4) \o request.authenticator
                  \o Slice(replyBytes, 20, Len(replyBytes)) \o clientSecret)
    THEN [ok |-> TRUE, err |-> "ok"]
  ELSE [ok |-> FALSE, err |-> "Packet authenticator mismatch"]

(***************************************************************************)
(* The state of the parts a run does not use.                              *)
(***************************************************************************)
NoLookup == [done |-> FALSE, entry |-> ZeroDictionaryAttribute,
             byName |-> [attr |-> ZeroDictionaryAttribute, ok |-> FALSE],
             byID |-> [attr |-> ZeroDictionaryAttribute, ok |-> FALSE]]

\* no conversion made
NoConv == [of |-> "none", input |-> <<>>, bytes |-> <<>>, err |-> "none",
           value |-> <<>>, ok |-> FALSE, type |-> "none"]

\* the tools state of a run that makes no tools call
IdleCrypto ==
  /\ data = <<>> /\ encrypted = <<>> /\ authenticator = <<>> /\ salt = <<>>
  /\ secret = <<>> /\ result = <<>> /\ err = "ok" /\ op = "idle" /\ prev = "idle"
  /\ conv = NoConv

NoCreated == [done |-> FALSE, by |-> "none", name |-> "", id |-> 0, value |-> <<>>,
              attr |-> ZeroRadiusAttribute, ok |-> FALSE]

\* the dictionary state of a run that loads no dictionary
IdleDict ==
  /\ lines = <<>> /\ dict = EmptyDictionary /\ lookup = NoLookup
  /\ created = NoCreated
  /\ scan = [vendorName |-> "", status |-> "idle", scanned |-> <<>>]

NoRx == [done |-> FALSE, packet |-> ZeroRadiusPacket, status |-> "none"]

NoReply == [done |-> FALSE, packet |-> ZeroRadiusPacket, status |-> "none"]

NoVerifyReply == [done |-> FALSE, ok |-> FALSE, err |-> "none"]

NoAttrsVerified == [status |-> "none", id |-> NoID]

\* nothing on the wire
NoWire ==
  /\ wire = <<>> /\ wfrom = "none" /\ tamperedAt = 0 /\ rx = NoRx /\ verified = "none"
  /\ attrsVerified = NoAttrsVerified

\* the packet state of a run that builds no packet
IdlePacket ==
  /\ pkt = ZeroRadiusPacket /\ pop = "none" /\ perr = "ok"
  /\ NoWire

\* the reply state of a run that builds no reply
IdleReply ==
  /\ reply = NoReply /\ replyWire = <<>> /\ vreply = NoVerifyReply

(***************************************************************************)
(* The dictionary files drawn, and the load as a state machine: one step    *)
(* per line, then lookups in the loaded dictionary.                         *)
(***************************************************************************)
FileLines ==
  { <<>>,
    <<"#">>,
    <<"$INCLUDE", "dictionary.other">>,
    <<"ATTRIBUTE", "User-Name", <<1>>, "text">>,
    <<"ATTRIBUTE", "Message-Authenticator", <<8, 0>>, "string">>,
    <<"ATTRIBUTE", "Somevendor-Name", <<1>>, "text">>,
    <<"ATTRIBUTE", "User-Name", <<2>>, "integer">>,
    <<"ATTRIBUTE", "Class", <<2, 5>>, "tlv">>,
    <<"ATTRIBUTE", "Big-Code", <<2, 5, 6>>, "text">>,
    <<"ATTRIBUTE", "No-Code", <<1, NonDigit>>, "text">>,
    <<"VALUE", "Framed-Protocol", "PPP", "1">>,
    <<"VENDOR", "Somevendor", <<1, 0>>>>,
    <<"VENDOR", "Othervendor", <<3, 0, 0>>>>,
    <<"BEGIN-VENDOR", "Somevendor">>,
    <<"END-VENDOR">> }

RECURSIVE FilesOfLen(_)
FilesOfLen(n) ==
  IF n = 0 THEN {<<>>}
  ELSE {Append(f, l) : f \in FilesOfLen(n - 1), l \in FileLines}

\* the files of up to n lines
Files(n) == UNION {FilesOfLen(k) : k \in 0..n}

\* a call of CreateRadAttributeByName or CreateRadAttributeByID
ByName(name, value) == [by |-> "name", name |-> name, id |-> 0, value |-> value]

ByID(id, value) == [by |-> "id", name |-> "", id |-> id, value |-> value]

CreateRadAttribute(d, rq) ==
  IF rq.by = "name" THEN CreateRadAttributeByName(d, rq.name, rq.value)
  ELSE CreateRadAttributeByID(d, rq.id, rq.value)

\* the calls made on a loaded dictionary: names and codes that entries of
\* the files have, once or twice, and ones that no entry has
CreateRequests ==
  { ByName("User-Name", <<116>>),
    ByName("Somevendor-Name", <<>>),
    ByName("Class", <<9>>),
    ByID(1, <<116, 0>>),
    ByID(2, <<0, 0, 0, 9>>),
    ByID(3, <<>>) }

InitDict ==
  /\ lines \in Files(MaxLines)
  /\ scan = [vendorName |-> "", status |-> "loading", scanned |-> <<>>]
  /\ dict = EmptyDictionary
  /\ lookup = NoLookup
  /\ created = NoCreated
  /\ IdleCrypto
  /\ IdlePacket
  /\ IdleReply

\* for scanner.Scan() { ... }: one line
ScanLine ==
  /\ scan.status = "loading"
  /\ Len(lines) > 0
  /\ LET r == scanLine(Head(lines), scan.vendorName, dict)
     IN  /\ dict' = r.dict
         /\ scan' = [vendorName |-> r.vendorName, status |-> r.status,
                     scanned |-> Append(scan.scanned, Head(lines))]
  /\ lines' = Tail(lines)
  /\ UNCHANGED <<lookup, created, cryptoVars, packetVars, replyVars>>

\* return Dictionary{ attributes, values, vendors }, nil
FinishLoad ==
  /\ scan.status = "loading"
  /\ Len(lines) = 0
  /\ scan' = [scan EXCEPT !.status = "loaded"]
  /\ UNCHANGED <<lines, dict, lookup, created, cryptoVars, packetVars, replyVars>>

\* an attribute is created through the loaded dictionary
CreateAttribute ==
  /\ scan.status = "loaded"
  /\ ~created.done /\ ~lookup.done
  /\ \E rq \in CreateRequests :
       LET r == CreateRadAttribute(dict, rq)
       IN  created' = [done |-> TRUE, by |-> rq.by, name |-> rq.name, id |-> rq.id,
                       value |-> rq.value, attr |-> r.attr, ok |-> r.ok]
  /\ UNCHANGED <<lines, scan, dict, lookup, cryptoVars, packetVars, replyVars>>

\* both lookups for an entry of the loaded dictionary
LookupEntry ==
  /\ scan.status = "loaded"
  /\ ~created.done
  /\ \E i \in 1..Len(dict.attributes) :
       lookup' = [done |-> TRUE, entry |-> dict.attributes[i],
                  byName |-> DictionaryAttributeByName(dict, dict.attributes[i].name),
                  byID |-> DictionaryAttributeByID(dict, dict.attributes[i].code)]
  /\ UNCHANGED <<lines, scan, dict, created, cryptoVars, packetVars, replyVars>>

NextDict ==
  \/ ScanLine
  \/ FinishLoad
  \/ LookupEntry
  \/ CreateAttribute

SpecDict == InitDict /\ [][NextDict]_vars

(***************************************************************************)
(* The inputs of the tools package.                                        *)
(***************************************************************************)
\* a plaintext of n bytes: 1 + (i mod 7) everywhere, and the byte `last' at
\* its end (0 gives a plaintext that ends in a zero byte)
Plain(n, last) == [i \in 1..n |-> IF i = n THEN last ELSE 1 + (i % 7)]

\* besides, the lengths around the last one whose salted ciphertext still has
\* a length below 256, and the longest one a length byte can express
PlainLens == (0..MaxPlainLen) \cup {239, 240, 255}

Plaintexts == {Plain(n, last) : n \in PlainLens, last \in {0, 9}} \cup {Zeros(16)}

Authenticators == {[i \in 1..16 |-> i], Zeros(16)}

Secrets == {<<115, 101, 99>>}

Salts == {<<133, 154>>}

\* ciphertext buffers that come from the wire rather than from an encryption:
\* the lengths around 2 and 18, where SaltDecryptData changes its course,
\* and two lengths above 255
WireCiphertexts == {Zeros(n) : n \in {0, 1, 2, 16, 17, 18, 256, 258}}

InitCrypto ==
  /\ \/ data \in Plaintexts /\ encrypted = <<>>
     \/ data = <<>> /\ encrypted \in WireCiphertexts
  /\ authenticator \in Authenticators
  /\ salt \in Salts
  /\ secret \in Secrets
  /\ result = <<>>
  /\ err = "ok"
  /\ op = "input"
  /\ prev = "input"
  /\ conv = NoConv
  /\ IdleDict
  /\ IdlePacket
  /\ IdleReply

\* encrypted := EncryptData(&data, &authenticator, &secret)
DoEncryptData ==
  /\ op = "input"
  /\ encrypted' = EncryptData(data, authenticator, secret)
  /\ op' = "EncryptData"
  /\ prev' = op
  /\ err' = "ok"
  /\ UNCHANGED <<data, authenticator, salt, secret, result, conv, dictVars, packetVars, replyVars>>

\* encrypted := SaltEncryptData(&data, &authenticator, &salt, &secret)
DoSaltEncryptData ==
  /\ op = "input"
  /\ encrypted' = SaltEncryptData(data, authenticator, salt, secret)
  /\ op' = "SaltEncryptData"
  /\ prev' = op
  /\ err' = "ok"
  /\ UNCHANGED <<data, authenticator, salt, secret, result, conv, dictVars, packetVars, replyVars>>

\* result := DecryptData(&encrypted, &authenticator, &secret)
DoDecryptData ==
  /\ op \in {"input", "EncryptData"}
  /\ LET r == DecryptData(encrypted, authenticator, secret)
     IN  /\ result' = r.out
         /\ encrypted' = r.data
         /\ err' = r.status
  /\ op' = "DecryptData"
  /\ prev' = op
  /\ UNCHANGED <<data, authenticator, salt, secret, conv, dictVars, packetVars, replyVars>>

\* result, err := SaltDecryptData(&encrypted, &authenticator, &secret)
DoSaltDecryptData ==
  /\ op \in {"input", "SaltEncryptData"}
  /\ LET r == SaltDecryptData(encrypted, authenticator, secret)
     IN  /\ result' = r.out
         /\ encrypted' = r.data
         /\ err' = r.status
  /\ op' = "SaltDecryptData"
  /\ prev' = op
  /\ UNCHANGED <<data, authenticator, salt, secret, conv, dictVars, packetVars, replyVars>>

NextCrypto ==
  \/ DoEncryptData
  \/ DoSaltEncryptData
  \/ DoDecryptData
  \/ DoSaltDecryptData

SpecCrypto == InitCrypto /\ [][NextCrypto]_vars

(***************************************************************************)
(* The conversions of the tools package: a timestamp is encoded and the     *)
(* bytes are decoded; bytes from the wire are decoded; the value of an      *)
(* attribute is checked against a declared type.                            *)
(***************************************************************************)
\* the 16-bit quarters the timestamps are made of
Quarters == {0, 1, 32768, 65535}

\* int64 timestamps: 0, 1, 2^32 - 1, 2^32, -1, the least and the greatest
\* int64 among them
Timestamps == {<<a, b, c, e>> : a \in Quarters, b \in Quarters, c \in Quarters, e \in Quarters}

\* buffers from the wire handed to the decoder
WireTimestamps == {<<>>, <<0, 0, 1>>, <<95, 71, 138, 29>>, <<0, 0, 0, 0, 1>>}

\* the declared types of the dictionary
SupportedAttributeTypes ==
  {"AsciiString", "ByteString", "Integer", "Integer64", "Date", "IPv4Addr",
   "IPv4Prefix", "IPv6Addr", "IPv6Prefix", "InterfaceId"}

\* the values of the attributes checked: of every length, text and zero bytes
AttributeValues ==
  {Plain(n, 116) : n \in 0..MaxValueLen} \cup {Zeros(n) : n \in 0..MaxValueLen}

InitConv ==
  /\ data = <<>> /\ encrypted = <<>> /\ authenticator = <<>> /\ salt = <<>>
  /\ secret = <<>> /\ result = <<>> /\ err = "ok" /\ op = "idle" /\ prev = "idle"
  /\ \/ \E t \in Timestamps : conv = [NoConv EXCEPT !.of = "timestamp", !.input = t]
     \/ \E b \in WireTimestamps : conv = [NoConv EXCEPT !.of = "bytes", !.bytes = b]
     \/ \E v \in AttributeValues : conv = [NoConv EXCEPT !.of = "value", !.bytes = v]
  /\ IdleDict
  /\ IdlePacket
  /\ IdleReply

\* bytes, err := TimestampToBytes(timestamp)
DoTimestampToBytes ==
  /\ conv.of = "timestamp"
  /\ LET r == TimestampToBytes(conv.input)
     IN  conv' = [conv EXCEPT !.of = "TimestampToBytes", !.bytes = r.bytes, !.err = r.err]
  /\ UNCHANGED <<data, encrypted, authenticator, salt, secret, result, err, op, prev,
                 dictVars, packetVars, replyVars>>

\* value, ok := BytesToTimestamp(bytes)
DoBytesToTimestamp ==
  /\ \/ conv.of = "TimestampToBytes" /\ conv.err = "ok"
     \/ conv.of = "bytes"
  /\ LET r == BytesToTimestamp(conv.bytes)
     IN  conv' = [conv EXCEPT !.of = "BytesToTimestamp", !.value = r.value, !.ok = r.ok]
  /\ UNCHANGED <<data, encrypted, authenticator, salt, secret, result, err, op, prev,
                 dictVars, packetVars, replyVars>>

\* ok := radAttr.VerifyOriginalValue(allowedType) on an attribute with the
\* value in conv.bytes
DoVerifyOriginalValue ==
  /\ conv.of = "value"
  /\ \E allowedType \in SupportedAttributeTypes :
       conv' = [conv EXCEPT !.of = "VerifyOriginalValue", !.type = allowedType,
                            !.ok = VerifyOriginalValue(RadiusAttribute(0, "", conv.bytes),
                                                       allowedType)]
  /\ UNCHANGED <<data, encrypted, authenticator, salt, secret, result, err, op, prev,
                 dictVars, packetVars, replyVars>>

NextConv ==
  \/ DoTimestampToBytes
  \/ DoBytesToTimestamp
  \/ DoVerifyOriginalValue

SpecConv == InitConv /\ [][NextConv]_vars

(***************************************************************************)
(* The packets drawn, and the life of a packet as a state machine: it is   *)
(* built, serialised, possibly changed in transit, parsed and verified.    *)
(***************************************************************************)
\* the dictionaries a host is given: one whose vendor entry has a code of
\* its own, one whose vendor entries reuse the codes of base entries
HostFiles ==
  { << <<"ATTRIBUTE", "User-Name", <<1>>, "text">>,
       <<"ATTRIBUTE", "Message-Authenticator", <<8, 0>>, "string">>,
       <<"VENDOR", "Somevendor", <<1, 0>>>>,
       <<"BEGIN-VENDOR", "Somevendor">>,
       <<"ATTRIBUTE", "Somevendor-Number", <<2>>, "integer">>,
       <<"END-VENDOR">> >>,
    << <<"ATTRIBUTE", "User-Name", <<1>>, "text">>,
       <<"ATTRIBUTE", "Message-Authenticator", <<8, 0>>, "string">>,
       <<"VENDOR", "Somevendor", <<1, 0>>>>,
       <<"BEGIN-VENDOR", "Somevendor">>,
       <<"ATTRIBUTE", "Somevendor-Name", <<1>>, "text">>,
       <<"ATTRIBUTE", "Somevendor-Hash", <<8, 0>>, "string">>,
       <<"END-VENDOR">> >> }

HostDictionaries == {DictionaryFromFile(f).dict : f \in HostFiles}

\* the lists of calls made to create the attributes of a packet: with and
\* without a Message-Authenticator placeholder, by name and by code, base
\* and vendor entries, values of 253 and of 254 bytes, a name no
\* dictionary has
AttrRequests ==
  { <<>>,
    <<ByName("User-Name", <<116>>)>>,
    <<ByName(MessageAuthenticatorName, Zeros(16))>>,
    <<ByName("User-Name", <<116>>), ByID(80, Zeros(16))>>,
    <<ByName(MessageAuthenticatorName, Zeros(16)), ByID(1, <<116, 0>>)>>,
    <<ByID(80, Zeros(16)), ByName(MessageAuthenticatorName, Zeros(16))>>,
    <<ByID(2, <<0, 0, 0, 9>>), ByName(MessageAuthenticatorName, Zeros(16))>>,
    <<ByName("Somevendor-Number", <<0, 0, 0, 9>>)>>,
    <<ByName("Somevendor-Name", <<116>>), ByName(MessageAuthenticatorName, Zeros(16))>>,
    <<ByName("Somevendor-Hash", Zeros(16)), ByName(MessageAuthenticatorName, Zeros(16))>>,
    <<ByName("Somevendor-Number", Plain(253, 9)), ByName(MessageAuthenticatorName, Zeros(16))>>,
    <<ByName("Somevendor-Number", Plain(254, 9)), ByName(MessageAuthenticatorName, Zeros(16))>>,
    <<ByName("Framed-Protocol", <<1>>)>> }

\* the lists whose attributes the dictionary lets create, created
AttrLists(d) ==
  { [i \in 1..Len(rqs) |-> CreateRadAttribute(d, rqs[i]).attr] :
      rqs \in {l \in AttrRequests : \A i \in 1..Len(l) : CreateRadAttribute(d, l[i]).ok} }

TypeCodes == {"AccessRequest", UnknownTypeCode}

\* what createPacketId and createPacketAuthenticator draw
RandomIds == {43}

RandomAuthenticators == {[i \in 1..16 |-> 7 * i]}

OverrideIds == {220}

OverrideAuthenticators == {<<>>, <<1, 2, 3>>}

OverrideMessageAuthenticators == {<<1, 2, 3>>}

\* the bits of a byte flipped in transit
TamperBits == {1, 4}

\* a host with its dictionary loaded and its secret set
LoadedHost ==
  /\ data = <<>> /\ encrypted = <<>> /\ authenticator = <<>> /\ salt = <<>>
  /\ secret \in Secrets /\ result = <<>> /\ err = "ok" /\ op = "idle" /\ prev = "idle"
  /\ conv = NoConv
  /\ lines = <<>> /\ lookup = NoLookup /\ created = NoCreated
  /\ dict \in HostDictionaries
  /\ \E f \in HostFiles :
       /\ dict = DictionaryFromFile(f).dict
       /\ scan = [vendorName |-> "", status |-> "loaded", scanned |-> f]

InitPacket ==
  /\ LoadedHost
  /\ IdlePacket
  /\ IdleReply

\* a call that changes the packet leaves nothing of it on the wire
ClearWire ==
  /\ wire' = <<>> /\ wfrom' = "none" /\ tamperedAt' = 0 /\ rx' = NoRx /\ verified' = "none"
  /\ attrsVerified' = NoAttrsVerified

DoInitialiseRadiusPacket ==
  /\ wfrom = "none"
  /\ \E code \in TypeCodes, id \in RandomIds, auth \in RandomAuthenticators :
       pkt' = RadiusPacket(id, code, auth, <<>>)
  /\ pop' = "InitialiseRadiusPacket" /\ perr' = "ok"
  /\ ClearWire
  /\ UNCHANGED <<cryptoVars, dictVars, replyVars>>

\* the attributes are created through the dictionary, then set
DoSetAttributes ==
  /\ pop # "none"
  /\ wfrom = "none"
  /\ \E attr \in AttrLists(dict) : pkt' = [pkt EXCEPT !.attributes = attr]
  /\ pop' = "SetAttributes" /\ perr' = "ok"
  /\ ClearWire
  /\ UNCHANGED <<cryptoVars, dictVars, replyVars>>

DoOverrideID ==
  /\ pop # "none"
  /\ wfrom = "none"
  /\ \E id \in OverrideIds : pkt' = [pkt EXCEPT !.id = id]
  /\ pop' = "OverrideID" /\ perr' = "ok"
  /\ ClearWire
  /\ UNCHANGED <<cryptoVars, dictVars, replyVars>>

DoOverrideAuthenticator ==
  /\ pop # "none"
  /\ wfrom = "none"
  /\ \E auth \in OverrideAuthenticators : pkt' = [pkt EXCEPT !.authenticator = auth]
  /\ pop' = "OverrideAuthenticator" /\ perr' = "ok"
  /\ ClearWire
  /\ UNCHANGED <<cryptoVars, dictVars, replyVars>>

DoOverrideMessageAuthenticator ==
  /\ pop # "none"
  /\ wfrom = "none"
  /\ \E newMessageAuth \in OverrideMessageAuthenticators :
       LET r == OverrideMessageAuthenticator(pkt, newMessageAuth)
       IN  pkt' = r.packet /\ perr' = r.status
  /\ pop' = "OverrideMessageAuthenticator"
  /\ ClearWire
  /\ UNCHANGED <<cryptoVars, dictVars, replyVars>>

DoGenerateMessageAuthenticator ==
  /\ pop # "none"
  /\ wfrom = "none"
  /\ \E rnd \in RandomAuthenticators :
       LET r == GenerateMessageAuthenticator(pkt, secret, rnd)
       IN  pkt' = r.packet /\ perr' = r.status
  /\ pop' = "GenerateMessageAuthenticator"
  /\ ClearWire
  /\ UNCHANGED <<cryptoVars, dictVars, replyVars>>

\* the bytes go on the wire; pop and perr keep the call that shaped the packet
DoToBytes ==
  /\ pop # "none"
  /\ wfrom = "none"
  /\ \E rnd \in RandomAuthenticators :
       LET tb == ToBytes(pkt, rnd)
       IN  /\ pkt' = tb.packet
           /\ wire' = tb.bytes
           /\ wfrom' = IF tb.ok THEN "ToBytes" ELSE "failed"
  /\ UNCHANGED <<pop, perr, tamperedAt, rx, verified, attrsVerified, cryptoVars, dictVars, replyVars>>

\* one byte of an accepted buffer is changed in transit
DoTamper ==
  /\ wfrom = "ToBytes"
  /\ verified = "ok"
  /\ \E i \in 1..Len(wire), bit \in TamperBits :
       /\ wire' = [wire EXCEPT ![i] = XorByte(wire[i], bit)]
       /\ tamperedAt' = i - 1
  /\ wfrom' = "tampered"
  /\ rx' = NoRx
  /\ verified' = "none"
  /\ UNCHANGED <<pkt, pop, perr, attrsVerified, cryptoVars, dictVars, replyVars>>

DoInitialiseRadiusPacketFromBytes ==
  /\ wfrom \in {"ToBytes", "received"}
  /\ ~rx.done
  /\ LET r == InitialiseRadiusPacketFromBytes(dict, wire)
     IN  rx' = [done |-> TRUE, packet |-> r.packet, status |-> r.status]
  /\ UNCHANGED <<pkt, pop, perr, wire, wfrom, tamperedAt, verified, attrsVerified,
                 cryptoVars, dictVars, replyVars>>

DoVerifyMessageAuthenticator ==
  /\ wfrom \in {"ToBytes", "tampered", "received"}
  /\ verified = "none"
  /\ verified' = VerifyMessageAuthenticator(dict, secret, wire)
  /\ UNCHANGED <<pkt, pop, perr, wire, wfrom, tamperedAt, rx, attrsVerified,
                 cryptoVars, dictVars, replyVars>>

NextPacket ==
  \/ DoInitialiseRadiusPacket
  \/ DoSetAttributes
  \/ DoOverrideID
  \/ DoOverrideAuthenticator
  \/ DoOverrideMessageAuthenticator
  \/ DoGenerateMessageAuthenticator
  \/ DoToBytes
  \/ DoTamper
  \/ DoInitialiseRadiusPacketFromBytes
  \/ DoVerifyMessageAuthenticator

SpecPacket == InitPacket /\ [][NextPacket]_vars

(***************************************************************************)
(* A host that is handed buffers from the network: it parses them, checks  *)
(* the values of their attributes and their Message-Authenticator.         *)
(***************************************************************************)
\* the dictionary of the receiving host: one entry per kind of declared
\* type, and a vendor entry that reuses the code of User-Name
VerifyFile ==
  << <<"ATTRIBUTE", "User-Name", <<1>>, "text">>,
     <<"ATTRIBUTE", "NAS-IP-Address", <<4>>, "ipaddr">>,
     <<"ATTRIBUTE", "NAS-Port-Id", <<5>>, "integer">>,
     <<"ATTRIBUTE", "Class", <<2, 5>>, "string">>,
     <<"ATTRIBUTE", "Event-Timestamp", <<5, 5>>, "time">>,
     <<"ATTRIBUTE", "Message-Authenticator", <<8, 0>>, "string">>,
     <<"ATTRIBUTE", "Framed-Interface-Id", <<9, 6>>, "ifid">>,
     <<"ATTRIBUTE", "Framed-IPv6-Prefix", <<9, 7>>, "ipv6prefix">>,
     <<"VENDOR", "Somevendor", <<1, 0>>>>,
     <<"BEGIN-VENDOR", "Somevendor">>,
     <<"ATTRIBUTE", "Somevendor-Addr", <<1>>, "ipaddr">>,
     <<"END-VENDOR">> >>

VerifyDictionaries == {DictionaryFromFile(VerifyFile).dict}

\* attributes as they come from the network: well-formed values and
\* ill-formed ones for the declared types, a Message-Authenticator with and
\* without a value, an id the dictionary does not have, a length byte below
\* 2 and one that reaches beyond the buffer
RawAttributes ==
  { <<1, 4, 116, 114>>,
    <<1, 3, 255>>,
    <<4, 6, 192, 168, 1, 10>>,
    <<4, 5, 192, 168, 10>>,
    <<5, 3, 0>>,
    <<55, 6, 0, 0, 0, 1>>,
    <<25, 2>>,
    <<80, 2>>,
    <<80, 18>> \o Zeros(16),
    <<96, 10, 0, 0, 0, 0, 0, 0, 0, 1>>,
    <<97, 20, 0, 64>> \o Zeros(16),
    <<7, 3, 1>>,
    <<1, 1>>,
    <<1, 9, 116>> }

RECURSIVE RawAttributeLists(_)
RawAttributeLists(n) ==
  IF n = 0 THEN {<<>>}
  ELSE RawAttributeLists(n - 1)
         \cup {l \o a : l \in RawAttributeLists(n - 1), a \in RawAttributes}

\* a header with the code byte b in front of the attribute bytes
RawPacket(b, attrs) ==
  <<b, 43>> \o packetLengthToBytes(20 + Len(attrs)) \o [i \in 1..16 |-> 7 * i] \o attrs

\* the buffers handed to the host: an Accounting-Request with every list of
\* attributes, a header and a single byte for every value of the code byte,
\* and the empty buffer
ReceivedBuffers ==
  {RawPacket(4, attrs) : attrs \in RawAttributeLists(MaxRawAttrs)}
    \cup {RawPacket(b, <<>>) : b \in Byte}
    \cup {<<b>> : b \in Byte}
    \cup {<<>>}

InitHost ==
  /\ IdleCrypto
  /\ lines = <<>> /\ lookup = NoLookup /\ created = NoCreated
  /\ dict \in VerifyDictionaries
  /\ scan = [vendorName |-> "", status |-> "loaded", scanned |-> VerifyFile]
  /\ pkt = ZeroRadiusPacket /\ pop = "none" /\ perr = "ok"
  /\ wire \in ReceivedBuffers
  /\ wfrom = "received" /\ tamperedAt = 0 /\ rx = NoRx /\ verified = "none"
  /\ attrsVerified = NoAttrsVerified
  /\ IdleReply

DoVerifyPacketAttributes ==
  /\ wfrom = "received"
  /\ attrsVerified.status = "none"
  /\ attrsVerified' = VerifyPacketAttributes(dict, wire)
  /\ UNCHANGED <<pkt, pop, perr, wire, wfrom, tamperedAt, rx, verified,
                 cryptoVars, dictVars, replyVars>>

NextHost ==
  \/ DoInitialiseRadiusPacketFromBytes
  \/ DoVerifyPacketAttributes
  \/ DoVerifyMessageAuthenticator

SpecHost == InitHost /\ [][NextHost]_vars

(***************************************************************************)
(* A request, the server's reply to it and the client's check of the reply.*)
(***************************************************************************)
\* the requests a client holds
RequestPackets ==
  { RadiusPacket(43, "AccessRequest", [i \in 1..16 |-> 7 * i], <<>>),
    RadiusPacket(220, "AccountingRequest", Zeros(16), <<>>) }

\* the request buffers a server is handed: the bytes of a request, and
\* buffers too short to hold a header
RequestBuffers ==
  {ToBytes(p, Zeros(16)).bytes : p \in RequestPackets} \cup {<<1, 43>>, <<>>}

\* the codes a reply is given
ReplyCodes == {TypeCodeTable[i][2] : i \in 1..Len(TypeCodeTable)}

InitReply ==
  /\ LoadedHost
  /\ pkt \in RequestPackets
  /\ pop = "InitialiseRadiusPacket" /\ perr = "ok"
  /\ wire \in RequestBuffers
  /\ wfrom = "request" /\ tamperedAt = 0 /\ rx = NoRx /\ verified = "none"
  /\ attrsVerified = NoAttrsVerified
  /\ IdleReply

DoCreateReplyPacket ==
  /\ wfrom = "request"
  /\ ~reply.done /\ ~vreply.done
  /\ \E replyCode \in ReplyCodes, attributes \in AttrLists(dict),
        rnd \in RandomAuthenticators :
       LET r == CreateReplyPacket(replyCode, attributes, wire, secret, rnd)
       IN  reply' = [done |-> TRUE, packet |-> r.packet, status |-> r.status]
  /\ UNCHANGED <<replyWire, vreply, cryptoVars, dictVars, packetVars>>

\* the reply is serialised for the client
DoReplyToBytes ==
  /\ reply.done /\ reply.status = "ok"
  /\ replyWire = <<>>
  /\ replyWire' = ToBytes(reply.packet, Zeros(16)).bytes
  /\ UNCHANGED <<reply, vreply, cryptoVars, dictVars, packetVars>>

DoVerifyReply ==
  /\ reply.done /\ reply.status = "ok"
  /\ replyWire # <<>>
  /\ ~vreply.done
  /\ LET r == VerifyReply(secret, pkt, replyWire)
     IN  vreply' = [done |-> TRUE, ok |-> r.ok, err |-> r.err]
  /\ UNCHANGED <<reply, replyWire, cryptoVars, dictVars, packetVars>>

\* reply buffers that no server built: the empty one, buffers shorter than
\* a header with the id of a request in their second byte and with another
\* id, the buffer of the client's test, and a header with an id of no request
MalformedReplies ==
  { <<>>,
    <<2>>,
    <<2, 43>>, <<2, 220, 0>>, <<2, 7>>,
    <<2, 43, 0, 19>> \o Zeros(15),
    <<2, 7, 0, 19>> \o Zeros(15),
    <<43, 215, 189, 213, 172, 57, 94, 141, 70, 134, 121, 101, 57, 187, 220, 227, 73>>,
    <<2, 7, 0, 20>> \o Zeros(16) }

\* the client is handed a buffer from the network and verifies it
DoVerifyMalformedReply ==
  /\ wfrom = "request"
  /\ ~reply.done /\ ~vreply.done
  /\ \E r \in MalformedReplies :
       /\ replyWire' = r
       /\ LET v == VerifyReply(secret, pkt, r)
          IN  vreply' = [done |-> TRUE, ok |-> v.ok, err |-> v.err]
  /\ UNCHANGED <<reply, cryptoVars, dictVars, packetVars>>

NextReply ==
  \/ DoCreateReplyPacket
  \/ DoReplyToBytes
  \/ DoVerifyReply
  \/ DoVerifyMalformedReply

SpecReply == InitReply /\ [][NextReply]_vars

(***************************************************************************)
(* The whole program.                                                      *)
(***************************************************************************)
Init == InitCrypto \/ InitConv \/ InitDict \/ InitPacket \/ InitHost \/ InitReply

Next == NextCrypto \/ NextConv \/ NextDict \/ NextPacket \/ NextHost \/ NextReply

Spec == Init /\ [][Next]_vars

TypeOKCrypto ==
  /\ op \in {"input", "EncryptData", "SaltEncryptData", "DecryptData", "SaltDecryptData"}
  /\ \A i \in 1..Len(encrypted) : encrypted[i] \in Byte
  /\ \A i \in 1..Len(result) : result[i] \in Byte

(***************************************************************************)
(* Properties of the tools package.                                        *)
(***************************************************************************)
\* the smallest multiple of 16 that is >= n
Ceil16(n) == 16 * ((n + 15) \div 16)

\* C4: a plaintext of at least one byte whose final byte is non-zero comes
\* back unchanged from DecryptData(EncryptData(P, A, S), A, S)
C4_UserPasswordRoundTrip ==
  (op = "DecryptData" /\ prev = "EncryptData" /\ Len(data) >= 1 /\ data[Len(data)] # 0)
    => (err = "ok" /\ result = data)

C4_Witness ==
  /\ op = "DecryptData" /\ prev = "EncryptData"
  /\ Len(data) > 16 /\ data[Len(data)] # 0
  /\ err = "ok" /\ result = data

\* C5: a plaintext of 1 to 255 bytes comes back unchanged, with no error,
\* from SaltDecryptData(SaltEncryptData(P, A, salt, S), A, S)
C5_TunnelPasswordRoundTrip ==
  (op = "SaltDecryptData" /\ prev = "SaltEncryptData" /\ Len(data) \in 1..255)
    => (err = "ok" /\ result = data)

\* the reference operator of the User-Password scheme: the blocks of the
\* plaintext padded with zero bytes to n bytes, c1 = P1 xor MD5(S || A) and
\* ci = Pi xor MD5(S || c(i-1))
RefPadded(P, n) == [i \in 1..n |-> IF i <= Len(P) THEN P[i] ELSE 0]

RefPlainBlock(P, n, i) == [k \in 1..16 |-> RefPadded(P, n)[16 * (i - 1) + k]]

RECURSIVE RefCipherBlock(_, _, _, _, _)
RefCipherBlock(P, n, A, S, i) ==
  LET b == IF i = 1 THEN MD5(S \o A) ELSE MD5(S \o RefCipherBlock(P, n, A, S, i - 1))
  IN  [k \in 1..16 |-> XorByte(RefPlainBlock(P, n, i)[k], b[k])]

RefEncrypt(P, n, A, S) ==
  [x \in 1..n |-> RefCipherBlock(P, n, A, S, ((x - 1) \div 16) + 1)[((x - 1) % 16) + 1]]

\* C8 as stated: EncryptData(P, A, S) is the reference operator applied to P
\* padded to exactly ceil(|P|/16)*16 bytes
C8_Original ==
  (op = "EncryptData" /\ Len(data) >= 1)
    => encrypted = RefEncrypt(data, Ceil16(Len(data)), authenticator, secret)

\* C8 as amended: EncryptData(P, A, S) is the reference operator applied to P
\* padded to (floor(|P|/16) + 1)*16 bytes, which is ceil(|P|/16)*16 unless |P|
\* is a multiple of 16 and then |P| + 16
C8_EncryptMatchesReference ==
  (op = "EncryptData" /\ Len(data) >= 1)
    => encrypted = RefEncrypt(data, 16 * ((Len(data) \div 16) + 1), authenticator, secret)

C8_Witness ==
  /\ op = "EncryptData" /\ Len(data) = 32
  /\ Len(encrypted) = 48
  /\ encrypted = RefEncrypt(data, 48, authenticator, secret)

\* C9: the length of EncryptData(P, A, S), for P of at least one byte, is the
\* smallest multiple of 16 that is >= |P|, except that it is |P| + 16 when
\* |P| is a positive multiple of 16
C9_PaddingDeterminism ==
  (op = "EncryptData" /\ Len(data) >= 1)
    => Len(encrypted) = IF Len(data) % 16 = 0 THEN Len(data) + 16 ELSE Ceil16(Len(data))

C9_Witness ==
  op = "EncryptData" /\ Len(data) = 16 /\ Len(encrypted) = 32

Int64OfUint32(v) == <<0, 0, v[1], v[2]>>

\* C14: for every int64 timestamp t that TimestampToBytes encodes without
\* error, BytesToTimestamp of the 4 bytes succeeds and yields t.
C14_TimestampRoundTrip ==
  (conv.of = "BytesToTimestamp" /\ conv.input # <<>>) =>
    (conv.ok /\ Len(conv.bytes) = 4 /\ Int64OfUint32(conv.value) = conv.input)

\* what does hold: the timestamps that are not negative come back
TimestampNotNegativeRoundTrip ==
  (conv.of = "BytesToTimestamp" /\ conv.input # <<>> /\ conv.input[1] < 32768) =>
    (conv.ok /\ Len(conv.bytes) = 4 /\ Int64OfUint32(conv.value) = conv.input)

\* C19: SaltDecryptData returns a decode error for every input of length 0
\* or 1, the empty plaintext with no error for every input of length 2 to
\* 17, and neither of these two outcomes of the short input (the error, the
\* empty plaintext returned with the input not read) for an input of length
\* 18 or more.
C19_SaltDecryptShortInputs ==
  [][DoSaltDecryptData
       => /\ Len(encrypted) \in {0, 1} => err' = TooShort
          /\ Len(encrypted) \in 2..17 => (err' = "ok" /\ result' = <<>>)
          /\ Len(encrypted) >= 18
               => /\ err' # TooShort
                  /\ ~(err' = "ok" /\ result' = <<>> /\ encrypted' = encrypted)]_vars

\* what does hold: the same, for the inputs of up to 255 bytes
SaltDecryptShortInputsBelow256 ==
  [][(DoSaltDecryptData /\ Len(encrypted) <= 255)
       => /\ Len(encrypted) \in {0, 1} => err' = TooShort
          /\ Len(encrypted) \in 2..17 => (err' = "ok" /\ result' = <<>>)
          /\ Len(encrypted) >= 18
               => /\ err' # TooShort
                  /\ ~(err' = "ok" /\ result' = <<>> /\ encrypted' = encrypted)]_vars

\* the length VerifyOriginalValue is said to require for a length-typed type
RequiredLength(type) == IF type = "Integer64" THEN 8 ELSE 4

\* C24: for the declared types integer, integer64 and time,
\* VerifyOriginalValue returns true exactly when the value is 4, 8 and 4
\* bytes long respectively.
C24_LengthTypedValidation ==
  (conv.of = "VerifyOriginalValue" /\ conv.type \in {"Integer", "Integer64", "Date"})
    => (conv.ok <=> Len(conv.bytes) = RequiredLength(conv.type))

\* what does hold: the same for integer and time, and no value passes for
\* integer64
LengthTypedValidationOutcome ==
  conv.of = "VerifyOriginalValue" =>
    /\ conv.type \in {"Integer", "Date"} => (conv.ok <=> Len(conv.bytes) = 4)
    /\ conv.type = "Integer64" => ~conv.ok

\* C28: after DecryptData or SaltDecryptData returns, the caller's ciphertext
\* buffer has the length and the bytes it had before the call, and the
\* authenticator and the secret are unchanged.
C28_DecryptionKeepsItsInput ==
  [][(DoDecryptData \/ DoSaltDecryptData)
       => /\ encrypted' = encrypted
          /\ authenticator' = authenticator /\ secret' = secret]_vars

\* what does hold: the authenticator and the secret are unchanged; the
\* caller's buffer is left empty by a call that has read it to its end, and
\* unchanged by SaltDecryptData when it takes the input for a short one and
\* does not read it
DecryptionConsumesItsInput ==
  [][(DoDecryptData \/ DoSaltDecryptData)
       => /\ authenticator' = authenticator /\ secret' = secret
          /\ (err' # "fault" /\ op' = "DecryptData") => encrypted' = <<>>
          /\ (err' # "fault" /\ op' = "SaltDecryptData")
               => encrypted' = IF Len(encrypted) % 256 <= 17 THEN encrypted ELSE <<>>]_vars

\* every byte of s is zero
AllZero(s) == \A i \in 1..Len(s) : s[i] = 0

\* C30: DecryptData returns without faulting for every ciphertext whose
\* length is a positive multiple of 16, and a ciphertext that decrypts to
\* zero bytes only (the encryption of a plaintext of zero bytes only) yields
\* the empty plaintext.
C30_DecryptAllZero ==
  [][(DoDecryptData /\ Len(encrypted) > 0 /\ Len(encrypted) % 16 = 0)
       => /\ err' = "ok"
          /\ (op = "EncryptData" /\ AllZero(data)) => result' = <<>>]_vars

\* what does hold: on the encryption of a plaintext the call faults exactly
\* when the plaintext has zero bytes only, the empty one included, and it
\* does not fault on the other ciphertexts of such a length
DecryptFaultsOnAllZero ==
  [][(DoDecryptData /\ Len(encrypted) > 0 /\ Len(encrypted) % 16 = 0)
       => /\ op = "EncryptData" => (err' = "fault" <=> AllZero(data))
          /\ op = "input" => err' = "ok"]_vars

(***************************************************************************)
(* Properties of the dictionary.                                           *)
(***************************************************************************)
\* no two entries of one vendor namespace share a code or a name
UniqueWithinNamespace(d) ==
  \A i, j \in 1..Len(d.attributes) :
    (i # j /\ d.attributes[i].vendorName = d.attributes[j].vendorName)
      => /\ d.attributes[i].code # d.attributes[j].code
         /\ d.attributes[i].name # d.attributes[j].name

\* C7 as stated: for every attribute entry e of a loaded dictionary, base or
\* vendor namespace, the lookups by e.name and by e.code both succeed and
\* both return e (stated here for the dictionaries that keep names and
\* codes unique within each namespace, where the statement already fails)
C7_Original ==
  (lookup.done /\ UniqueWithinNamespace(dict)) =>
    /\ lookup.byName.ok /\ lookup.byID.ok
    /\ lookup.byName.attr = lookup.entry
    /\ lookup.byID.attr = lookup.entry

FirstWithName(e) ==
  \A i \in 1..Len(dict.attributes) :
    dict.attributes[i].name = e.name =>
      \E j \in 1..i : dict.attributes[j] = e

FirstWithCode(e) ==
  \A i \in 1..Len(dict.attributes) :
    dict.attributes[i].code = e.code =>
      \E j \in 1..i : dict.attributes[j] = e

\* C7 as amended: for every attribute entry e of a loaded dictionary both
\* lookups succeed, the lookup by name returns e when no earlier entry has
\* the name of e, and the lookup by code returns e when no earlier entry
\* (of any namespace) has the code of e
C7_LookupConsistency ==
  lookup.done =>
    /\ lookup.byName.ok /\ lookup.byID.ok
    /\ FirstWithName(lookup.entry) => lookup.byName.attr = lookup.entry
    /\ FirstWithCode(lookup.entry) => lookup.byID.attr = lookup.entry

C7_Witness ==
  /\ lookup.done
  /\ Len(dict.attributes) = 2
  /\ lookup.entry = dict.attributes[1]
  /\ dict.attributes[2].code = lookup.entry.code
  /\ dict.attributes[2].vendorName # lookup.entry.vendorName
  /\ lookup.byName.attr = lookup.entry
  /\ lookup.byID.attr = lookup.entry

\* the k-th line of the file f starts with the keyword
IsLine(f, k, keyword) == Len(f[k]) > 0 /\ f[k][1] = keyword

\* the name of the most recent BEGIN-VENDOR line before line k of f with no
\* END-VENDOR line between it and line k, the empty string when there is none
ActiveVendor(f, k) ==
  LET begins == {j \in 1..(k - 1) : IsLine(f, j, "BEGIN-VENDOR")}
      ends   == {j \in 1..(k - 1) : IsLine(f, j, "END-VENDOR")}
  IN  IF begins = {} THEN ""
      ELSE LET b == CHOOSE j \in begins : \A i \in begins : i <= j
           IN  IF \E e \in ends : e > b THEN "" ELSE f[b][2]

\* the ATTRIBUTE lines of f whose type token is a known one, and its VALUE
\* lines
AttributeLines(f) ==
  {k \in 1..Len(f) : IsLine(f, k, "ATTRIBUTE") /\ assignAttributeType(f[k][4]).ok}

ValueLines(f) == {k \in 1..Len(f) : IsLine(f, k, "VALUE")}

\* the position of line k among the lines ks, in file order
Rank(ks, k) == Cardinality({j \in ks : j <= k})

\* C25: every ATTRIBUTE and VALUE entry of the dictionary that
\* DictionaryFromFile returns carries the name of the most recent BEGIN-VENDOR
\* line before its line with no END-VENDOR in between, the empty string when
\* there is none; the entries are in file order, one per VALUE line and one
\* per ATTRIBUTE line with a known type token, so that a line with an unknown
\* type token adds none and the lines after it are loaded.
C25_VendorScoping ==
  scan.status = "loaded" =>
    LET f == scan.scanned
    IN  /\ Len(dict.attributes) = Cardinality(AttributeLines(f))
        /\ \A k \in AttributeLines(f) :
             LET e == dict.attributes[Rank(AttributeLines(f), k)]
             IN  /\ e.name = f[k][2]
                 /\ e.code = ParseUint8(f[k][3]).value
                 /\ e.vendorName = ActiveVendor(f, k)
        /\ Len(dict.values) = Cardinality(ValueLines(f))
        /\ \A k \in ValueLines(f) :
             LET v == dict.values[Rank(ValueLines(f), k)]
             IN  /\ v.attributeName = f[k][2] /\ v.valueName = f[k][3]
                 /\ v.vendorName = ActiveVendor(f, k)

\* a file that opens a vendor block, has an ATTRIBUTE line with an unknown
\* type token and then one with a known one is loaded to the one entry, in
\* the vendor's namespace
C25_Witness ==
  /\ scan.status = "loaded"
  /\ Len(scan.scanned) = 3
  /\ IsLine(scan.scanned, 1, "BEGIN-VENDOR")
  /\ IsLine(scan.scanned, 2, "ATTRIBUTE") /\ ~assignAttributeType(scan.scanned[2][4]).ok
  /\ IsLine(scan.scanned, 3, "ATTRIBUTE")
  /\ Len(dict.attributes) = 1
  /\ dict.attributes[1].name = scan.scanned[3][2]
  /\ dict.attributes[1].vendorName = "Somevendor"

\* C29: in every dictionary returned by DictionaryFromFile no two attribute
\* entries with the same vendor name share a code and no two share a name,
\* whatever ATTRIBUTE lines the file has.
C29_DictionaryUniqueness ==
  scan.status = "loaded" => UniqueWithinNamespace(dict)

\* what does hold: the entries that share a name or a code within a
\* namespace come from lines of the file that do
DuplicatesComeFromTheFile ==
  (scan.status = "loaded" /\ ~UniqueWithinNamespace(dict)) =>
    LET f == scan.scanned
    IN  \E k, l \in AttributeLines(f) :
          /\ k # l
          /\ ActiveVendor(f, k) = ActiveVendor(f, l)
          /\ (f[k][2] = f[l][2] \/ ParseUint8(f[k][3]).value = ParseUint8(f[l][3]).value)

\* an ATTRIBUTE or VENDOR line whose numeric field is no decimal number in
\* 0..255
BadNumericLine(line) ==
  /\ Len(line) >= 3
  /\ line[1] \in {"ATTRIBUTE", "VENDOR"}
  /\ \/ Len(line[3]) = 0
     \/ \E k \in 1..Len(line[3]) : line[3][k] = NonDigit
     \/ DecimalValue(line[3], 1, 0) > 255

\* C16: when an ATTRIBUTE code or a VENDOR id is not a decimal number in
\* 0..255, DictionaryFromFile ends the load by returning an error value to
\* its caller, and no dictionary.
C16_NumericFailureReturnsError ==
  [][(ScanLine /\ BadNumericLine(Head(lines)))
       => (scan'.status = "error" /\ dict' = EmptyDictionary)]_vars

\* what the code does there: the load ends in a panic
NumericFailurePanics ==
  [][(ScanLine /\ BadNumericLine(Head(lines))) => scan'.status = "panic"]_vars

\* the entry at i is the first one with the name n (with the code c)
FirstNamed(i, n) ==
  /\ dict.attributes[i].name = n
  /\ \A j \in 1..(i - 1) : dict.attributes[j].name # n

FirstCoded(i, c) ==
  /\ dict.attributes[i].code = c
  /\ \A j \in 1..(i - 1) : dict.attributes[j].code # c

\* C12: CreateRadAttributeByName (ByID) succeeds exactly when some entry of
\* the dictionary has the name (the code); the attribute returned then has
\* the id and the name of the first such entry and the value given;
\* otherwise the call reports failure and returns the zero attribute.
C12_CreateThroughDictionary ==
  created.done =>
    /\ created.by = "name" =>
         /\ created.ok <=> \E i \in 1..Len(dict.attributes) : dict.attributes[i].name = created.name
         /\ \A i \in 1..Len(dict.attributes) :
              FirstNamed(i, created.name) =>
                created.attr = [id |-> dict.attributes[i].code, name |-> dict.attributes[i].name,
                                value |-> created.value]
    /\ created.by = "id" =>
         /\ created.ok <=> \E i \in 1..Len(dict.attributes) : dict.attributes[i].code = created.id
         /\ \A i \in 1..Len(dict.attributes) :
              FirstCoded(i, created.id) =>
                created.attr = [id |-> dict.attributes[i].code, name |-> dict.attributes[i].name,
                                value |-> created.value]
    /\ ~created.ok => created.attr = ZeroRadiusAttribute

\* an attribute created by a code that two entries with different names
\* have carries the name of the first
C12_Witness ==
  /\ created.done /\ created.by = "id" /\ created.ok
  /\ Len(dict.attributes) = 2
  /\ dict.attributes[1].code = created.id /\ dict.attributes[2].code = created.id
  /\ dict.attributes[1].name # dict.attributes[2].name
  /\ created.attr = [id |-> created.id, name |-> dict.attributes[1].name, value |-> created.value]

(***************************************************************************)
(* Properties of the packet codec and of the Message-Authenticator.        *)
(***************************************************************************)
KnownTypeCode(p) == typeCodeToUint8(p.code).ok

ValuesAtMost253(p) == \A i \in 1..Len(p.attributes) : Len(p.attributes[i].value) <= 253

\* every attribute carries the name of the first dictionary entry that has
\* its code, which is the name a creation by code gives
NamedAsFirstWithCode(d, p) ==
  \A i \in 1..Len(p.attributes) :
    CreateRadAttributeByID(d, p.attributes[i].id, p.attributes[i].value).attr = p.attributes[i]

\* the packet on the wire is the packet pkt, serialised, and has been parsed
ParsedFresh ==
  /\ wfrom = "ToBytes" /\ rx.done
  /\ KnownTypeCode(pkt) /\ Len(pkt.authenticator) = 16 /\ ValuesAtMost253(pkt)

\* C1 as stated: a packet with a known type code, a 16-byte authenticator and
\* dictionary-created attributes (any vendor namespace) of at most 253 bytes
\* each parses back from its bytes to an equal packet.
C1_Original == ParsedFresh => (rx.status = "ok" /\ rx.packet = pkt)

\* C1: a packet with a known type code, a 16-byte authenticator and
\* dictionary-created attributes of at most 253 bytes each, every one named
\* as the first dictionary entry with its code, parses back from its bytes
\* to a packet with the same code, id, authenticator and attribute sequence.
C1_PacketRoundTrip ==
  (ParsedFresh /\ NamedAsFirstWithCode(dict, pkt)) => (rx.status = "ok" /\ rx.packet = pkt)

\* a two-attribute packet with a 253-byte vendor attribute has come back equal
C1_Witness ==
  /\ ParsedFresh /\ NamedAsFirstWithCode(dict, pkt)
  /\ Len(pkt.attributes) = 2
  /\ Len(pkt.attributes[1].value) = 253
  /\ pkt.attributes[1].name = "Somevendor-Number"
  /\ rx.status = "ok" /\ rx.packet = pkt

\* the bytes on the wire are those of pkt right after a successful
\* GenerateMessageAuthenticator, and the host has verified them
VerifiedGenerated ==
  /\ wfrom = "ToBytes" /\ verified # "none"
  /\ pop = "GenerateMessageAuthenticator" /\ perr = "ok"
  /\ KnownTypeCode(pkt) /\ Len(pkt.authenticator) = 16

\* C2 as stated: after GenerateMessageAuthenticator succeeds on a packet with
\* a known type code, a 16-byte authenticator and dictionary-created
\* attributes, the host accepts the packet's bytes under the same secret
\* and dictionary.
C2_Original == VerifiedGenerated => verified = "ok"

\* C2: the same, for attribute values of at most 253 bytes and attributes
\* named as the first dictionary entry with their code.
C2_MessageAuthenticatorSymmetry ==
  (VerifiedGenerated /\ ValuesAtMost253(pkt) /\ NamedAsFirstWithCode(dict, pkt))
    => verified = "ok"

\* a generated two-attribute packet with a 253-byte value has been accepted
C2_Witness ==
  /\ VerifiedGenerated /\ ValuesAtMost253(pkt) /\ NamedAsFirstWithCode(dict, pkt)
  /\ Len(pkt.attributes) = 2
  /\ Len(pkt.attributes[1].value) = 253
  /\ verified = "ok"

\* C3: an accepted buffer changed at any one position is not accepted.
C3_TamperDetection == (wfrom = "tampered" /\ verified # "none") => verified # "ok"

\* the two bytes of the header's length field, as offsets
LengthFieldOffsets == {2, 3}

\* what the host does detect: a change at any position outside the length
\* field
TamperOutsideLengthFieldDetected ==
  (wfrom = "tampered" /\ verified # "none" /\ tamperedAt \notin LengthFieldOffsets)
    => verified # "ok"

\* C15: when the packet holds no attribute named Message-Authenticator,
\* OverrideMessageAuthenticator and GenerateMessageAuthenticator return the
\* error and leave the packet's id, code, authenticator and attribute list
\* as they were.
C15_MissingMessageAuthenticator ==
  [][(MessageAuthenticatorIndex(pkt) = 0
        /\ (DoOverrideMessageAuthenticator \/ DoGenerateMessageAuthenticator))
       => (perr' = NotFoundInPacket /\ pkt' = pkt)]_vars

\* GenerateMessageAuthenticator has failed on a packet with an attribute
\* other than Message-Authenticator and with an authenticator still to draw
C15_Witness ==
  /\ pop = "GenerateMessageAuthenticator" /\ perr = NotFoundInPacket
  /\ Len(pkt.attributes) = 1 /\ MessageAuthenticatorIndex(pkt) = 0
  /\ pkt.authenticator = <<>>

\* C20: whenever GenerateMessageAuthenticator returns an error the packet is
\* what it was before the call, the Message-Authenticator value included;
\* whenever it succeeds the attribute holds the 16-byte digest.
C20_NeverPartial ==
  [][DoGenerateMessageAuthenticator
       => IF perr' # "ok" THEN pkt' = pkt
          ELSE Len(MessageAuthenticator(pkt').value) = 16]_vars

\* what does hold: a failed call changes at most the value of the first
\* Message-Authenticator attribute, to 16 zero bytes, and an empty
\* authenticator, to the one drawn
GenerateFailureFrame ==
  [][(DoGenerateMessageAuthenticator /\ perr' # "ok")
       => /\ pkt'.id = pkt.id /\ pkt'.code = pkt.code
          /\ Len(pkt'.attributes) = Len(pkt.attributes)
          /\ pkt'.authenticator # pkt.authenticator
               => (pkt.authenticator = <<>> /\ pkt'.authenticator \in RandomAuthenticators)
          /\ \A i \in 1..Len(pkt.attributes) :
               pkt'.attributes[i] # pkt.attributes[i]
                 => /\ i = MessageAuthenticatorIndex(pkt)
                    /\ pkt'.attributes[i] = [pkt.attributes[i] EXCEPT !.value = Zeros(16)]]_vars

\* the packet holds no generated digest: the values of its attributes named
\* Message-Authenticator are those given at creation or by an override, as
\* the calls other than GenerateMessageAuthenticator leave them
NoDigestHeld(p) ==
  \A i \in 1..Len(p.attributes) :
    p.attributes[i].name = MessageAuthenticatorName
      => p.attributes[i].value \in {Zeros(16)} \cup OverrideMessageAuthenticators

\* the 16-bit value at bytes 2..3 of the buffer on the wire
HeaderLength == BigEndianUint16(Slice(wire, 2, 4))

\* C21: for every packet built by InitialiseRadiusPacket, SetAttributes,
\* OverrideID, OverrideAuthenticator and OverrideMessageAuthenticator,
\* whenever ToBytes succeeds the 16-bit value at bytes 2..3 of the output is
\* the number of bytes of the output.
C21_HeaderLengthField ==
  (wfrom = "ToBytes" /\ NoDigestHeld(pkt)) => HeaderLength = Len(wire)

\* what does hold: the same, for the packets whose authenticator has 16 bytes
HeaderLengthWithFullAuthenticator ==
  (wfrom = "ToBytes" /\ Len(pkt.authenticator) = 16) => HeaderLength = Len(wire)

\* C22: in every state of a packet built, changed, serialised or parsed (from
\* a buffer of at least 20 bytes) by the calls of the codec, the packet's
\* authenticator is exactly 16 bytes long.
C22_AuthenticatorInvariant ==
  /\ pop # "none" => Len(pkt.authenticator) = 16
  /\ (rx.done /\ rx.status = "ok") => Len(rx.packet.authenticator) = 16

\* what does hold: a call other than OverrideAuthenticator keeps a 16-byte
\* authenticator at 16 bytes, InitialiseRadiusPacket draws one, ToBytes
\* replaces an empty one, and a parsed packet has a 16-byte authenticator
AuthenticatorKeptByOtherCalls ==
  [][(NextPacket /\ ~DoOverrideAuthenticator)
       => /\ Len(pkt.authenticator) = 16 => pkt'.authenticator = pkt.authenticator
          /\ (DoInitialiseRadiusPacket \/ (DoToBytes /\ pkt.authenticator = <<>>))
               => Len(pkt'.authenticator) = 16
          /\ (rx'.done /\ rx'.status = "ok") => Len(rx'.packet.authenticator) = 16]_vars

\* q is p but for the value of the first attribute named
\* Message-Authenticator: same code and id, same number of attributes, the
\* same id and name at every position, the same value at every other position
SameButMessageAuthenticator(p, q) ==
  /\ q.code = p.code /\ q.id = p.id
  /\ Len(q.attributes) = Len(p.attributes)
  /\ \A i \in 1..Len(p.attributes) :
       /\ q.attributes[i].id = p.attributes[i].id
       /\ q.attributes[i].name = p.attributes[i].name
       /\ i # MessageAuthenticatorIndex(p) => q.attributes[i].value = p.attributes[i].value

\* from offset on, bytes holds the attributes i.. of attrs one after the
\* other and nothing else: the id, a length byte and the value of each
RECURSIVE AttributesAt(_, _, _, _)
AttributesAt(bytes, offset, attrs, i) ==
  IF i > Len(attrs) THEN offset = Len(bytes)
  ELSE /\ offset + 2 + Len(attrs[i].value) <= Len(bytes)
       /\ bytes[offset + 1] = attrs[i].id
       /\ Slice(bytes, offset + 2, offset + 2 + Len(attrs[i].value)) = attrs[i].value
       /\ AttributesAt(bytes, offset + 2 + Len(attrs[i].value), attrs, i + 1)

\* C26: a successful OverrideMessageAuthenticator or
\* GenerateMessageAuthenticator leaves the packet's code and id, the number
\* and order of its attributes and every attribute's id and name unchanged
\* and writes the value of one attribute only, the first one named
\* Message-Authenticator (the value given, a 16-byte digest); a ToBytes that
\* follows leaves the attributes as they are and emits them in that order.
C26_AttributeOrderAndFrame ==
  [][/\ ((DoOverrideMessageAuthenticator \/ DoGenerateMessageAuthenticator) /\ perr' = "ok")
          => /\ SameButMessageAuthenticator(pkt, pkt')
             /\ MessageAuthenticatorIndex(pkt') = MessageAuthenticatorIndex(pkt)
             /\ MessageAuthenticatorIndex(pkt) # 0
             /\ LET value == pkt'.attributes[MessageAuthenticatorIndex(pkt)].value
                IN  IF pop' = "GenerateMessageAuthenticator" THEN Len(value) = 16
                    ELSE value \in OverrideMessageAuthenticators
     /\ (DoToBytes /\ wfrom' = "ToBytes" /\ perr = "ok"
           /\ pop \in {"OverrideMessageAuthenticator", "GenerateMessageAuthenticator"})
          => /\ pkt'.attributes = pkt.attributes
             /\ AttributesAt(wire', 4 + Len(pkt'.authenticator), pkt.attributes, 1)]_vars

\* a packet with two attributes named Message-Authenticator has been
\* serialised after a successful GenerateMessageAuthenticator: the first
\* holds a digest, the second its 16 zero bytes, and the bytes hold both in
\* that order
C26_Witness ==
  /\ wfrom = "ToBytes" /\ pop = "GenerateMessageAuthenticator" /\ perr = "ok"
  /\ Len(pkt.attributes) = 2
  /\ pkt.attributes[1].name = MessageAuthenticatorName
  /\ pkt.attributes[2].name = MessageAuthenticatorName
  /\ pkt.attributes[1].value # Zeros(16) /\ Len(pkt.attributes[1].value) = 16
  /\ pkt.attributes[2].value = Zeros(16)
  /\ AttributesAt(wire, 4 + Len(pkt.authenticator), pkt.attributes, 1)

\* from offset on, bytes holds the attributes i.. of attrs and nothing else,
\* each as its id, one byte with the number of bytes of the serialised
\* attribute (the value's and the two in front) and its value
RECURSIVE WireFormsAt(_, _, _, _)
WireFormsAt(bytes, offset, attrs, i) ==
  IF i > Len(attrs) THEN offset = Len(bytes)
  ELSE /\ offset + 2 + Len(attrs[i].value) <= Len(bytes)
       /\ bytes[offset + 1] = attrs[i].id
       /\ bytes[offset + 2] = Len(attrs[i].value) + 2
       /\ Slice(bytes, offset + 2, offset + 2 + Len(attrs[i].value)) = attrs[i].value
       /\ WireFormsAt(bytes, offset + 2 + Len(attrs[i].value), attrs, i + 1)

\* C27: every attribute created through the dictionary, whatever its value
\* v, is serialised as its id, one byte that holds len(v) + 2, the number
\* of bytes of the serialised attribute, and v.
C27_AttributeWireForm ==
  wfrom = "ToBytes" => WireFormsAt(wire, 4 + Len(pkt.authenticator), pkt.attributes, 1)

\* what does hold: the same, for the values of at most 253 bytes
AttributeWireFormAtMost253 ==
  (wfrom = "ToBytes" /\ ValuesAtMost253(pkt))
    => WireFormsAt(wire, 4 + Len(pkt.authenticator), pkt.attributes, 1)

\* a value of 254 bytes or more is serialised whole behind a length byte
\* that holds the low 8 bits of len(v) + 2
AttributeLengthByteWraps ==
  (wfrom = "ToBytes" /\ Len(pkt.attributes) > 0 /\ Len(pkt.attributes[1].value) >= 254)
    => /\ wire[4 + Len(pkt.authenticator) + 2] = (Len(pkt.attributes[1].value) + 2) % 256
       /\ AttributesAt(wire, 4 + Len(pkt.authenticator), pkt.attributes, 1)

(***************************************************************************)
(* Properties of the host's checks of a received buffer.                   *)
(***************************************************************************)
\* what InitialiseRadiusPacketFromBytes makes of the buffer in wire
Parsed == InitialiseRadiusPacketFromBytes(dict, wire)

\* the attribute a is checked and does not pass for the type the dictionary
\* declares for its id
FailsVerification(a) ==
  /\ a.name # MessageAuthenticatorName
  /\ ~VerifyOriginalValue(a, DictionaryAttributeByID(dict, a.id).attr.codeType)

\* the parsed attributes that fail, as a sequence of booleans in packet order
Failing == [i \in 1..Len(Parsed.packet.attributes) |-> FailsVerification(Parsed.packet.attributes[i])]

\* no error exactly when the buffer parses and no checked attribute fails
NoErrorExactlyWhenAllPass ==
  (attrsVerified.status = "ok") <=> (Parsed.status = "ok" /\ FirstIndex(Failing) = 0)

\* C11 as stated: VerifyPacketAttributes returns no error exactly when the
\* buffer parses and every parsed attribute other than Message-Authenticator
\* passes VerifyOriginalValue for the type the dictionary declares for its
\* id; otherwise the error names the id of the first attribute that fails.
C11_Original ==
  attrsVerified.status # "none" =>
    /\ NoErrorExactlyWhenAllPass
    /\ attrsVerified.status # "ok" =>
         /\ attrsVerified.id # NoID
         /\ Parsed.status = "ok" =>
              attrsVerified.id = Parsed.packet.attributes[FirstIndex(Failing)].id

\* C11: VerifyPacketAttributes returns no error exactly when the buffer
\* parses and every parsed attribute other than Message-Authenticator passes
\* VerifyOriginalValue for the type of the first dictionary entry with its
\* id; when the buffer parses and some attribute fails, the error is the
\* verification error with the id of the first attribute that fails; when
\* the buffer does not parse, the call ends as the parser does, with the
\* parser's error (which names no attribute for an invalid type code) or
\* with the parser's fault.
C11_AttributeVerification ==
  attrsVerified.status # "none" =>
    /\ NoErrorExactlyWhenAllPass
    /\ (Parsed.status = "ok" /\ FirstIndex(Failing) # 0) =>
         attrsVerified = [status |-> CannotVerify,
                          id |-> Parsed.packet.attributes[FirstIndex(Failing)].id]
    /\ Parsed.status # "ok" =>
         attrsVerified = [status |-> Parsed.status, id |-> Parsed.id]

\* two attributes fail and the error names the first
C11_Witness ==
  /\ attrsVerified.status = CannotVerify
  /\ Parsed.status = "ok"
  /\ Len(Parsed.packet.attributes) = 2
  /\ Failing = <<TRUE, TRUE>>
  /\ Parsed.packet.attributes[1].id = 4 /\ Parsed.packet.attributes[2].id = 5
  /\ attrsVerified.id = 4

\* C18: Host.VerifyMessageAuthenticator on a well-formed packet without a
\* Message-Authenticator attribute fails with the mismatch error.
C18_MissingAuthenticatorIsMismatch ==
  (wfrom = "received" /\ verified # "none"
     /\ Parsed.status = "ok" /\ MessageAuthenticatorIndex(Parsed.packet) = 0)
    => verified = MismatchError

\* what the code returns there
MissingAuthenticatorIsNotFound ==
  (wfrom = "received" /\ verified # "none"
     /\ Parsed.status = "ok" /\ MessageAuthenticatorIndex(Parsed.packet) = 0)
    => verified = NotFoundInPacket

\* the codes the protocol names
NamedCodes == {1, 2, 3, 4, 5, 11, 12, 13, 40, 41, 42, 43, 44, 45}

\* C13: typeCodeFromUint8(b) succeeds exactly for the 14 named codes,
\* typeCodeToUint8 maps the result back to b, and a buffer whose first byte
\* is any other value parses to the invalid type code error and no packet.
C13_TypeCodeMapping ==
  /\ \A b \in Byte : typeCodeFromUint8(b).ok <=> b \in NamedCodes
  /\ \A b \in NamedCodes :
       typeCodeToUint8(typeCodeFromUint8(b).code) = [value |-> b, ok |-> TRUE]
  /\ (rx.done /\ Len(wire) >= 1 /\ wire[1] \notin NamedCodes) =>
       (rx.status = "Invalid TypeCode" /\ rx.packet = ZeroRadiusPacket)

\* a single byte that is no named code has been refused as an invalid type
\* code
C13_Witness ==
  /\ rx.done /\ wire = <<0>>
  /\ rx.status = "Invalid TypeCode" /\ rx.packet = ZeroRadiusPacket

\* the bytes from lastIndex on are a chain of attributes, each with a length
\* byte of at least 2 that stays within the buffer
RECURSIVE WellFramed(_, _)
WellFramed(bytes, lastIndex) ==
  IF lastIndex = Len(bytes) THEN TRUE
  ELSE /\ lastIndex + 2 <= Len(bytes)
       /\ bytes[lastIndex + 2] >= 2
       /\ lastIndex + bytes[lastIndex + 2] <= Len(bytes)
       /\ WellFramed(bytes, lastIndex + bytes[lastIndex + 2])

\* C23: for every buffer of at least 20 bytes, whatever its attribute length
\* bytes are, InitialiseRadiusPacketFromBytes returns a packet or an error
\* value and never faults.
C23_ParsingNeverFaults ==
  (rx.done /\ Len(wire) >= 20) => rx.status # "fault"

\* what does hold: the same, for the buffers whose attribute length bytes
\* are at least 2 and stay within the buffer
WellFramedParsingNeverFaults ==
  (rx.done /\ Len(wire) >= 20 /\ WellFramed(wire, 20)) => rx.status # "fault"

\* a buffer that is not such a chain is parsed to a fault or, when an
\* attribute before the ill-framed one is not in the dictionary or the type
\* code is invalid, to that error
IllFramedParsingOutcome ==
  (rx.done /\ Len(wire) >= 20 /\ ~WellFramed(wire, 20))
    => rx.status \in {"fault", "attribute is not found in dictionary", "Invalid TypeCode"}

(***************************************************************************)
(* Properties of the reply authenticator.                                  *)
(***************************************************************************)
\* MD5(reply-code || reply-id || reply-length || R[4..20] ||
\* reply-attributes || S) for the reply p to the request buffer R
ReplyDigest(p, R, S) ==
  MD5(<<typeCodeToUint8(p.code).value, p.id>>
        \o packetLengthToBytes(20 + Len(attrsToBytes(p.attributes)))
        \o Slice(R, 4, 20) \o attrsToBytes(p.attributes) \o S)

\* the client has verified a buffer that is empty, shorter than the header
\* or carries another id than the request
MalformedReplyVerified ==
  /\ vreply.done /\ ~reply.done
  /\ (Len(replyWire) < 20 \/ replyWire[2] # pkt.id)

\* C17: for every reply buffer that is empty, shorter than the 20-byte
\* header or whose identifier differs from the request's id, VerifyReply
\* returns false with an error, 'Empty reply' when empty and otherwise
\* 'Packet identifier mismatch', and never faults.
C17_MalformedReplyRejected ==
  MalformedReplyVerified =>
    /\ ~vreply.ok
    /\ vreply.err = IF replyWire = <<>> THEN "Empty reply" ELSE "Packet identifier mismatch"

\* what does hold: the call faults on a buffer of one byte and on a buffer
\* of 2 to 19 bytes with the id of the request, and returns the errors on
\* the other ones
MalformedReplyOutcome ==
  MalformedReplyVerified =>
    /\ ~vreply.ok
    /\ vreply.err =
         CASE replyWire = <<>> -> "Empty reply"
           [] Len(replyWire) = 1 -> "fault"
           [] replyWire[2] # pkt.id -> "Packet identifier mismatch"
           [] OTHER -> "fault"

====
